---------------------------- MODULE Spec2Model ----------------------------
(***************************************************************************)
(* A model of the CityVoice relation-discovery and clustering pipeline:    *)
(*   enhance_clusters.py   classifier, connectivity clusterer, labelers    *)
(*   add_topics.py         community labeling (process_topics)             *)
(*   find_related_items.py tokenizer, relation finders, find_all_relations *)
(*                                                                         *)
(* Text is modelled as a sequence of one-character strings, so that        *)
(* substring search, lowercasing and tokenization are computed character   *)
(* by character as the Python code computes them.                          *)
(***************************************************************************)
EXTENDS Integers, Sequences, FiniteSets, TLC

(***************************************************************************)
(* Characters and strings.                                                 *)
(***************************************************************************)
UpperChars == <<"A", "B", "C", "D", "E", "F", "G", "H", "I", "J", "K", "L", "M", "N", "O", "P", "Q", "R", "S", "T", "U", "V", "W", "X", "Y", "Z">>

LowerChars == <<"a", "b", "c", "d", "e", "f", "g", "h", "i", "j", "k", "l", "m", "n", "o", "p", "q", "r", "s", "t", "u", "v", "w", "x", "y", "z">>

DigitChars == <<"0", "1", "2", "3", "4", "5", "6", "7", "8", "9">>

\* str.lower() on one character (ASCII letters)
lower_ch(c) ==
  IF \E i \in 1..Len(UpperChars) : UpperChars[i] = c
  THEN LowerChars[CHOOSE i \in 1..Len(UpperChars) : UpperChars[i] = c]
  ELSE c

\* str.lower()
str_lower(s) == [i \in 1..Len(s) |-> lower_ch(s[i])]

\* the Python operator `kw in text` on strings
str_in(kw, s) ==
  \E i \in 0..(Len(s) - Len(kw)) : SubSeq(s, i + 1, i + Len(kw)) = kw

RECURSIVE Concat(_)
\* concatenation of a sequence of strings
Concat(ss) == IF ss = << >> THEN << >> ELSE Head(ss) \o Concat(Tail(ss))

RECURSIVE str_join(_, _)
\* sep.join(ss)
str_join(sep, ss) ==
  IF ss = << >> THEN << >>
  ELSE IF Len(ss) = 1 THEN ss[1]
  ELSE ss[1] \o sep \o str_join(sep, Tail(ss))

(***************************************************************************)
(* enhance_clusters.py: the classifier.                                    *)
(***************************************************************************)
topic_keywords ==
  << [topic |-> "Housing",
      keywords |-> << <<"h", "o", "u", "s", "i", "n", "g">>,
                     <<"h", "o", "m", "e">>,
                     <<"a", "p", "a", "r", "t", "m", "e", "n", "t">>,
                     <<"a", "d", "u">>,
                     <<"d", "w", "e", "l", "l", "i", "n", "g">>,
                     <<"z", "o", "n", "i", "n", "g">>,
                     <<"r", "e", "s", "i", "d", "e", "n", "t", "i", "a", "l">>,
                     <<"u", "n", "i", "t", "s">>,
                     <<"b", "u", "i", "l", "d", "i", "n", "g">>,
                     <<"d", "e", "n", "s", "e">>,
                     <<"h", "o", "m", "e", "s">> >>],
     [topic |-> "Transit",
      keywords |-> << <<"b", "u", "s">>,
                     <<"s", "u", "b", "w", "a", "y">>,
                     <<"t", "r", "a", "n", "s", "i", "t">>,
                     <<"r", "a", "i", "l">>,
                     <<"t", "r", "a", "i", "n">>,
                     <<"m", "e", "t", "r", "o">>,
                     <<"t", "r", "a", "n", "s", "p", "o", "r", "t">>,
                     <<"c", "o", "m", "m", "u", "t", "e">>,
                     <<"l", "a", "n", "e">> >>],
     [topic |-> "Sidewalks",
      keywords |-> << <<"s", "i", "d", "e", "w", "a", "l", "k">>,
                     <<"p", "e", "d", "e", "s", "t", "r", "i", "a", "n">>,
                     <<"s", "t", "r", "e", "e", "t">>,
                     <<"w", "a", "l", "k">>,
                     <<"c", "r", "o", "s", "s", "w", "a", "l", "k">>,
                     <<"c", "u", "r", "b">>,
                     <<"w", "i", "d", "e", "r">> >>],
     [topic |-> "Safety",
      keywords |-> << <<"s", "a", "f", "e", "t", "y">>,
                     <<"s", "a", "f", "e">>,
                     <<"p", "o", "l", "i", "c", "e">>,
                     <<"o", "f", "f", "i", "c", "e", "r">>,
                     <<"c", "r", "i", "m", "e">>,
                     <<"s", "e", "c", "u", "r", "i", "t", "y">>,
                     <<"e", "n", "f", "o", "r", "c", "e", "m", "e", "n", "t">>,
                     <<"c", "o", "p", "s">> >>],
     [topic |-> "Green Space",
      keywords |-> << <<"g", "r", "e", "e", "n">>,
                     <<"t", "r", "e", "e">>,
                     <<"p", "a", "r", "k">>,
                     <<"g", "a", "r", "d", "e", "n">>,
                     <<"n", "a", "t", "u", "r", "e">>,
                     <<"p", "e", "r", "m", "e", "a", "b", "l", "e">>,
                     <<"f", "l", "o", "o", "d">> >>],
     [topic |-> "Schools",
      keywords |-> << <<"s", "c", "h", "o", "o", "l">>,
                     <<"s", "t", "u", "d", "e", "n", "t">>,
                     <<"c", "h", "i", "l", "d", "r", "e", "n">>,
                     <<"k", "i", "d", "s">> >>] >>

RECURSIVE first_topic(_, _)
\* the loop of classify_node over topic_keywords.items(), from entry k on
first_topic(s, k) ==
  IF k > Len(topic_keywords) THEN "Other"
  ELSE IF \E j \in 1..Len(topic_keywords[k].keywords) :
            str_in(topic_keywords[k].keywords[j], s)
       THEN topic_keywords[k].topic
       ELSE first_topic(s, k + 1)

\* classify_node without the lowercasing of the summary
classify_node_case_sensitive(node) == first_topic(node.summary, 1)

\* classify_node: the topic of a node, from its summary
classify_node(node) == first_topic(str_lower(node.summary), 1)

(***************************************************************************)
(* enhance_clusters.py: the graph builder and the connectivity clusterer.  *)
(***************************************************************************)
\* adjacency[id] once the loop over the edges has run (a defaultdict of sets)
adjacency(edges, id) ==
  {edges[k].target_id : k \in {j \in 1..Len(edges) : edges[j].source_id = id}}
  \cup {edges[k].source_id : k \in {j \in 1..Len(edges) : edges[j].target_id = id}}

\* `for x in S` over a Python set: the elements of S in the order the set
\* yields them, which the caller fixes by `order`
iterate(S, order) == SelectSeq(order, LAMBDA x : x \in S)

\* the nodes after `node['topic'] = classify_node(node)`
classified(nodes) ==
  [i \in 1..Len(nodes) |->
     [id |-> nodes[i].id, summary |-> nodes[i].summary,
      topic |-> classify_node(nodes[i])]]

RECURSIVE topic_order(_, _)
\* the keys of topic_groups in insertion order
topic_order(cnodes, seen) ==
  IF cnodes = << >> THEN << >>
  ELSE IF Head(cnodes).topic \in seen THEN topic_order(Tail(cnodes), seen)
  ELSE << Head(cnodes).topic >>
         \o topic_order(Tail(cnodes), seen \cup {Head(cnodes).topic})

\* topic_groups.items(): each topic with its nodes in input order
topic_groups(cnodes) ==
  LET keys == topic_order(cnodes, {})
  IN [k \in 1..Len(keys) |->
        [topic |-> keys[k],
         nodes |-> SelectSeq(cnodes, LAMBDA n : n.topic = keys[k])]]

\* next((n for n in topic_nodes if n['id'] == neighbor_id), None), as an
\* index into topic_nodes, 0 for None
find_neighbor(topic_nodes, neighbor_id) ==
  IF \E k \in 1..Len(topic_nodes) : topic_nodes[k].id = neighbor_id
  THEN CHOOSE k \in 1..Len(topic_nodes) :
         /\ topic_nodes[k].id = neighbor_id
         /\ \A j \in 1..(k - 1) : topic_nodes[j].id # neighbor_id
  ELSE 0

RECURSIVE scan_neighbors_unchecked(_, _, _)
\* scan_neighbors that takes every unvisited neighbor id for a node of the
\* topic, found in topic_nodes or not
scan_neighbors_unchecked(nbrs, topic_nodes, st) ==
  IF nbrs = << >> THEN st
  ELSE LET neighbor_id == Head(nbrs)
           k == find_neighbor(topic_nodes, neighbor_id)
           neighbor == IF k = 0
                       THEN [id |-> neighbor_id, summary |-> << >>,
                             topic |-> topic_nodes[1].topic]
                       ELSE topic_nodes[k]
       IN IF neighbor_id \in st.visited
          THEN scan_neighbors_unchecked(Tail(nbrs), topic_nodes, st)
          ELSE scan_neighbors_unchecked(Tail(nbrs), topic_nodes,
                 [cluster |-> Append(st.cluster, neighbor),
                  visited |-> st.visited \cup {neighbor_id},
                  queue |-> Append(st.queue, neighbor)])

RECURSIVE scan_neighbors(_, _, _)
\* the loop `for neighbor_id in adjacency[current['id']]`
scan_neighbors(nbrs, topic_nodes, st) ==
  IF nbrs = << >> THEN st
  ELSE LET neighbor_id == Head(nbrs)
           k == find_neighbor(topic_nodes, neighbor_id)
       IN IF neighbor_id \in st.visited
          THEN scan_neighbors(Tail(nbrs), topic_nodes, st)
          ELSE IF k = 0
          THEN scan_neighbors(Tail(nbrs), topic_nodes, st)
          ELSE scan_neighbors(Tail(nbrs), topic_nodes,
                 [cluster |-> Append(st.cluster, topic_nodes[k]),
                  visited |-> st.visited \cup {neighbor_id},
                  queue |-> Append(st.queue, topic_nodes[k])])

RECURSIVE bfs(_, _, _, _)
\* the loop `while queue`
bfs(topic_nodes, edges, order, st) ==
  IF st.queue = << >> THEN st
  ELSE LET current == Head(st.queue)
           popped == [st EXCEPT !.queue = Tail(st.queue)]
       IN bfs(topic_nodes, edges, order,
              scan_neighbors(iterate(adjacency(edges, current.id), order),
                             topic_nodes, popped))

RECURSIVE components_fresh_visited(_, _, _, _, _)
\* components that forgets, after a traversal, the nodes the traversal reached
components_fresh_visited(topic_nodes, edges, order, k, visited) ==
  IF k > Len(topic_nodes) THEN << >>
  ELSE IF topic_nodes[k].id \in visited
  THEN components_fresh_visited(topic_nodes, edges, order, k + 1, visited)
  ELSE LET st == bfs(topic_nodes, edges, order,
                     [cluster |-> << topic_nodes[k] >>,
                      visited |-> visited \cup {topic_nodes[k].id},
                      queue |-> << topic_nodes[k] >>])
       IN << st.cluster >>
            \o components_fresh_visited(topic_nodes, edges, order, k + 1,
                                        visited \cup {topic_nodes[k].id})

RECURSIVE components(_, _, _, _, _)
\* the loop `for node in topic_nodes` from the k-th node on: the node lists
\* of the clusters it appends
components(topic_nodes, edges, order, k, visited) ==
  IF k > Len(topic_nodes) THEN << >>
  ELSE IF topic_nodes[k].id \in visited
  THEN components(topic_nodes, edges, order, k + 1, visited)
  ELSE LET st == bfs(topic_nodes, edges, order,
                     [cluster |-> << topic_nodes[k] >>,
                      visited |-> visited \cup {topic_nodes[k].id},
                      queue |-> << topic_nodes[k] >>])
       IN << st.cluster >>
            \o components(topic_nodes, edges, order, k + 1, st.visited)

\* group_clusters that traverses the groups of two nodes as well
group_clusters_pairs_traversed(group, edges, order) ==
  IF Len(group.nodes) <= 1 THEN << group.nodes >>
  ELSE components(group.nodes, edges, order, 1, {})

\* the body of `for topic, topic_nodes in topic_groups.items()`: the node
\* lists of the clusters one topic group yields
group_clusters(group, edges, order) ==
  IF Len(group.nodes) <= 2 THEN << group.nodes >>
  ELSE components(group.nodes, edges, order, 1, {})

RECURSIVE all_clusters(_, _, _)
\* the clusters of all topic groups, before the ids are given
all_clusters(groups, edges, order) ==
  IF groups = << >> THEN << >>
  ELSE LET lists == group_clusters(Head(groups), edges, order)
       IN [i \in 1..Len(lists) |->
             [topic |-> Head(groups).topic, nodes |-> lists[i]]]
          \o all_clusters(Tail(groups), edges, order)

\* detect_clusters that traverses the whole node list as one group
detect_clusters_across_topics(d, order) ==
  LET cnodes == classified(d.nodes)
      cs == IF cnodes = << >> THEN << >>
            ELSE all_clusters(<< [topic |-> cnodes[1].topic, nodes |-> cnodes] >>,
                              d.edges, order)
  IN [i \in 1..Len(cs) |->
        [id |-> i - 1, topic |-> cs[i].topic, nodes |-> cs[i].nodes]]

\* detect_clusters(data); cluster_id counts from 0
detect_clusters(d, order) ==
  LET cs == all_clusters(topic_groups(classified(d.nodes)), d.edges, order)
  IN [i \in 1..Len(cs) |->
        [id |-> i - 1, topic |-> cs[i].topic, nodes |-> cs[i].nodes]]

(***************************************************************************)
(* enhance_clusters.py: the cluster labelers.                              *)
(***************************************************************************)
\* str.lower() of a topic name
topic_lower(t) ==
  CASE t = "Housing" -> "housing"
    [] t = "Transit" -> "transit"
    [] t = "Sidewalks" -> "sidewalks"
    [] t = "Safety" -> "safety"
    [] t = "Green Space" -> "green space"
    [] t = "Schools" -> "schools"
    [] OTHER -> "other"

\* topic_names.get(cluster['topic'], 'Urban Ideas')
topic_names(t) ==
  CASE t = "Housing" -> "Housing Development"
    [] t = "Transit" -> "Transit Improvements"
    [] t = "Sidewalks" -> "Pedestrian Infrastructure"
    [] t = "Safety" -> "Public Safety"
    [] t = "Green Space" -> "Green Infrastructure"
    [] t = "Schools" -> "School Safety"
    [] t = "Other" -> "Urban Improvements"
    [] OTHER -> "Urban Ideas"

Phrase_staten_island == <<"s", "t", "a", "t", "e", "n", " ", "i", "s", "l", "a", "n", "d">>
Phrase_bus_lane == <<"b", "u", "s", " ", "l", "a", "n", "e">>
Phrase_wider_sidewalk == <<"w", "i", "d", "e", "r", " ", "s", "i", "d", "e", "w", "a", "l", "k">>
Phrase_sidewalk_width == <<"s", "i", "d", "e", "w", "a", "l", "k", " ", "w", "i", "d", "t", "h">>
Phrase_dense == <<"d", "e", "n", "s", "e">>
Phrase_density == <<"d", "e", "n", "s", "i", "t", "y">>

\* all_text = ' '.join(summaries).lower(), over the non-empty summaries
all_text(nodes) ==
  LET with_summary == SelectSeq(nodes, LAMBDA n : n.summary # << >>)
      summaries == [i \in 1..Len(with_summary) |-> with_summary[i].summary]
  IN str_lower(str_join(<< " " >>, summaries))

\* consensus that takes more than 3 nodes for High
consensus_above_three(nodes) == IF Len(nodes) > 3 THEN "High" ELSE "Medium"

\* "High" if len(nodes) >= 3 else "Medium"
consensus(nodes) == IF Len(nodes) >= 3 THEN "High" ELSE "Medium"

\* generate_cluster_analysis_simple without the phrase overrides of the name
generate_cluster_analysis_canned(cluster) ==
  [name |-> topic_names(cluster.topic),
   summary |-> ToString(Len(cluster.nodes)) \o " citizens advocating for "
                 \o topic_lower(cluster.topic) \o " improvements",
   action |-> "Review and prioritize these "
                 \o topic_lower(cluster.topic) \o "-related suggestions",
   consensus |-> consensus(cluster.nodes)]

\* generate_cluster_analysis_simple(cluster)
generate_cluster_analysis_simple(cluster) ==
  LET nodes == cluster.nodes
      txt == all_text(nodes)
      name == IF str_in(Phrase_staten_island, txt)
                THEN "Staten Island " \o cluster.topic
              ELSE IF str_in(Phrase_bus_lane, txt)
                THEN "Bus Lane Expansion"
              ELSE IF str_in(Phrase_wider_sidewalk, txt)
                      \/ str_in(Phrase_sidewalk_width, txt)
                THEN "Sidewalk Width Reform"
              ELSE IF str_in(Phrase_dense, txt) \/ str_in(Phrase_density, txt)
                THEN "Dense Development Advocacy"
              ELSE topic_names(cluster.topic)
  IN [name |-> name,
      summary |-> ToString(Len(nodes)) \o " citizens advocating for "
                    \o topic_lower(cluster.topic) \o " improvements",
      action |-> "Review and prioritize these "
                    \o topic_lower(cluster.topic) \o "-related suggestions",
      consensus |-> consensus(nodes)]

\* the dict generate_cluster_analysis_anthropic returns when the response
\* holds no parsable JSON object
anthropic_default_analysis(cluster) ==
  [name |-> cluster.topic,
   summary |-> "Multiple ideas related to " \o topic_lower(cluster.topic),
   action |-> "Review and consolidate these citizen suggestions",
   consensus |-> "Medium"]

(***************************************************************************)
(* enhance_clusters.py: the LLM-backed functions.  A response of the       *)
(* provider is [kind, value]: kind "raise" when client.messages.create     *)
(* raises, "unparsable" when the text holds no JSON object that            *)
(* json.loads accepts, "parsed" with the parsed content in value.  A       *)
(* result is [raised, value]: raised when the function lets an exception   *)
(* out.                                                                    *)
(***************************************************************************)
\* generate_cluster_analysis_anthropic(cluster, client); value is << dict >>
generate_cluster_analysis_anthropic(cluster, resp) ==
  IF resp.kind = "raise" THEN [raised |-> TRUE, value |-> << >>]
  ELSE IF resp.kind = "parsed" THEN [raised |-> FALSE, value |-> resp.value]
  ELSE [raised |-> FALSE, value |-> << anthropic_default_analysis(cluster) >>]

\* extract_demands_anthropic(cluster, client); value is the demand list
extract_demands_anthropic(cluster, resp) ==
  IF resp.kind = "raise" THEN [raised |-> TRUE, value |-> << >>]
  ELSE IF resp.kind = "parsed" THEN [raised |-> FALSE, value |-> resp.value]
  ELSE [raised |-> FALSE, value |-> << >>]

\* synthesize_actions_anthropic without its `if not demands: return []`
synthesize_actions_unguarded(cluster, demands, resp) ==
  IF resp.kind = "raise" THEN [raised |-> TRUE, value |-> << >>, called |-> TRUE]
  ELSE IF resp.kind = "parsed" THEN [raised |-> FALSE, value |-> resp.value, called |-> TRUE]
  ELSE [raised |-> FALSE, value |-> << >>, called |-> TRUE]

\* synthesize_actions_anthropic(cluster, demands, client); called tells
\* whether the provider was called
synthesize_actions_anthropic(cluster, demands, resp) ==
  IF demands = << >> THEN [raised |-> FALSE, value |-> << >>, called |-> FALSE]
  \* d['description'], d['count'] raise KeyError on a demand without the key
  ELSE IF \E k \in 1..Len(demands) :
            ~({"description", "count"} \subseteq DOMAIN demands[k])
  THEN [raised |-> TRUE, value |-> << >>, called |-> FALSE]
  ELSE IF resp.kind = "raise" THEN [raised |-> TRUE, value |-> << >>, called |-> TRUE]
  ELSE IF resp.kind = "parsed" THEN [raised |-> FALSE, value |-> resp.value, called |-> TRUE]
  ELSE [raised |-> FALSE, value |-> << >>, called |-> TRUE]

\* the record for a cluster, with cluster ids counted from one
enhanced_record_id_from_one(cluster, analysis, demands, synthesized_actions) ==
  [id |-> cluster.id + 1,
   topic |-> cluster.topic,
   name |-> analysis.name,
   summary |-> analysis.summary,
   action |-> analysis.action,
   consensus |-> analysis.consensus,
   node_count |-> Len(cluster.nodes),
   demands |-> demands,
   synthesized_actions |-> synthesized_actions,
   nodes |-> [i \in 1..Len(cluster.nodes) |->
                [id |-> cluster.nodes[i].id,
                 summary |-> cluster.nodes[i].summary]]]

\* the record enhance_clusters appends for a cluster
enhanced_record(cluster, analysis, demands, synthesized_actions) ==
  [id |-> cluster.id,
   topic |-> cluster.topic,
   name |-> analysis.name,
   summary |-> analysis.summary,
   action |-> analysis.action,
   consensus |-> analysis.consensus,
   node_count |-> Len(cluster.nodes),
   demands |-> demands,
   synthesized_actions |-> synthesized_actions,
   nodes |-> [i \in 1..Len(cluster.nodes) |->
                [id |-> cluster.nodes[i].id,
                 summary |-> cluster.nodes[i].summary]]]

\* the body of the loop of enhance_clusters over one cluster: the call whose
\* exception left it ("none" when none did), the record appended, and the
\* calls made
analyze_cluster(cluster, has_client, lab, dem, act) ==
  IF ~has_client
  THEN [raised |-> "none",
        record |-> << enhanced_record(cluster,
                        generate_cluster_analysis_simple(cluster), << >>, << >>) >>,
        calls |-> << [cluster |-> cluster.id, kind |-> "simple"] >>]
  ELSE
    LET a == generate_cluster_analysis_anthropic(cluster, lab)
        d == extract_demands_anthropic(cluster, dem)
        y == synthesize_actions_anthropic(cluster, d.value, act)
        c1 == << [cluster |-> cluster.id, kind |-> "label"] >>
        c2 == c1 \o << [cluster |-> cluster.id, kind |-> "demands"] >>
        c3 == IF y.called
              THEN c2 \o << [cluster |-> cluster.id, kind |-> "actions"] >>
              ELSE c2
    IN IF a.raised THEN [raised |-> "label", record |-> << >>, calls |-> c1]
       ELSE IF d.raised THEN [raised |-> "demands", record |-> << >>, calls |-> c2]
       ELSE IF y.raised
       THEN [raised |-> IF y.called THEN "actions" ELSE "KeyError",
             record |-> << >>, calls |-> c3]
       \* analysis['name'] etc. raise KeyError on a dict without the key
       ELSE IF ~({"name", "summary", "action", "consensus"}
                   \subseteq DOMAIN a.value[1])
       THEN [raised |-> "KeyError", record |-> << >>, calls |-> c3]
       ELSE [raised |-> "none",
             record |-> << enhanced_record(cluster, a.value[1], d.value, y.value) >>,
             calls |-> c3]

(***************************************************************************)
(* add_topics.py: the two labelers of a community.                         *)
(***************************************************************************)
Whitespace == { " " }

\* str.upper() on one character (ASCII letters)
upper_ch(c) ==
  IF \E i \in 1..Len(LowerChars) : LowerChars[i] = c
  THEN UpperChars[CHOOSE i \in 1..Len(LowerChars) : LowerChars[i] = c]
  ELSE c

\* str.capitalize()
capitalize(w) ==
  IF w = << >> THEN w ELSE << upper_ch(w[1]) >> \o str_lower(Tail(w))

\* str.replace(c, '') for one character c
str_remove(s, c) == SelectSeq(s, LAMBDA x : x # c)

RECURSIVE split_ws(_, _)
\* str.split(): the words between runs of whitespace; cur is the word being read
split_ws(s, cur) ==
  IF s = << >> THEN (IF cur = << >> THEN << >> ELSE << cur >>)
  ELSE IF Head(s) \in Whitespace
  THEN (IF cur = << >> THEN << >> ELSE << cur >>) \o split_ws(Tail(s), << >>)
  ELSE split_ws(Tail(s), Append(cur, Head(s)))

RECURSIVE str_lstrip(_)
str_lstrip(s) ==
  IF s # << >> /\ Head(s) \in Whitespace THEN str_lstrip(Tail(s)) ELSE s

RECURSIVE str_rstrip(_)
str_rstrip(s) ==
  IF s # << >> /\ s[Len(s)] \in Whitespace
  THEN str_rstrip(SubSeq(s, 1, Len(s) - 1)) ELSE s

\* str.strip()
str_strip(s) == str_rstrip(str_lstrip(s))

\* label_community(nodes, client) on the provider's response: raises when
\* the call raises, else the text stripped and without double quotes
label_community(nodes, resp) ==
  IF resp.kind = "raise" THEN [raised |-> TRUE, value |-> << >>]
  ELSE [raised |-> FALSE, value |-> str_remove(str_strip(resp.value), "\"")]

stop_words ==
  { <<"t", "h", "e">>,
    <<"a">>,
    <<"a", "n">>,
    <<"a", "n", "d">>,
    <<"o", "r">>,
    <<"b", "u", "t">>,
    <<"i", "n">>,
    <<"o", "n">>,
    <<"a", "t">>,
    <<"t", "o">>,
    <<"f", "o", "r">>,
    <<"o", "f">>,
    <<"w", "i", "t", "h">>,
    <<"i", "s">>,
    <<"a", "r", "e">>,
    <<"b", "e">>,
    <<"t", "h", "i", "s">>,
    <<"t", "h", "a", "t">>,
    <<"i", "t">>,
    <<"c", "i", "t", "y">>,
    <<"n", "y", "c">>,
    <<"n", "e", "w">>,
    <<"y", "o", "r", "k">> }

\* the words one node adds to `words` in get_fallback_label
node_words(n) ==
  LET summary == str_lower(n.summary)
      ws == split_ws(str_remove(str_remove(summary, "."), ","), << >>)
      kept == SelectSeq(ws, LAMBDA w : w \notin stop_words /\ Len(w) > 3)
  IN [i \in 1..Len(kept) |-> capitalize(kept[i])]

RECURSIVE fallback_words(_)
\* `words` after the loop over the nodes
fallback_words(nodes) ==
  IF nodes = << >> THEN << >>
  ELSE node_words(Head(nodes)) \o fallback_words(Tail(nodes))

\* Counter(words)[words[i]]
word_count(words, i) == Cardinality({ j \in 1..Len(words) : words[j] = words[i] })

RECURSIVE most_common(_, _, _)
\* Counter(words).most_common(n): the n most frequent words, equal counts
\* in the order of their first occurrence; taken lists the words already
\* chosen
most_common(words, n, taken) ==
  LET firsts == { i \in 1..Len(words) :
                    /\ words[i] \notin taken
                    /\ \A j \in 1..(i - 1) : words[j] # words[i] }
  IN IF n = 0 \/ firsts = {} THEN << >>
     ELSE LET best == CHOOSE i \in firsts :
                        \A j \in firsts :
                          \/ word_count(words, j) < word_count(words, i)
                          \/ word_count(words, j) = word_count(words, i) /\ i <= j
          IN << words[best] >>
               \o most_common(words, n - 1, taken \cup { words[best] })

Label_Miscellaneous == <<"M", "i", "s", "c", "e", "l", "l", "a", "n", "e", "o", "u", "s">>
Label_Group == <<"G", "r", "o", "u", "p">>

\* get_fallback_label(nodes)
get_fallback_label(nodes) ==
  LET words == fallback_words(nodes)
  IN IF words = << >> THEN Label_Group
     ELSE str_join(<< " ", "&", " " >>, most_common(words, 2, {}))

(***************************************************************************)
(* find_related_items.py: the tokenizer and the keyword relation finder.   *)
(***************************************************************************)
STOPWORDS ==
  { <<"t", "h", "e">>,
    <<"a", "n", "d">>,
    <<"f", "o", "r">>,
    <<"w", "i", "t", "h">>,
    <<"t", "h", "a", "t">>,
    <<"t", "h", "i", "s">>,
    <<"f", "r", "o", "m">>,
    <<"a", "r", "e">>,
    <<"w", "a", "s">>,
    <<"w", "e", "r", "e">>,
    <<"h", "a", "v", "e">>,
    <<"h", "a", "s">>,
    <<"h", "a", "d">>,
    <<"b", "u", "t">>,
    <<"n", "o", "t">>,
    <<"y", "o", "u">>,
    <<"y", "o", "u", "r">>,
    <<"o", "u", "r">>,
    <<"t", "h", "e", "i", "r">>,
    <<"t", "h", "e", "y">>,
    <<"t", "h", "e", "m">>,
    <<"h", "i", "s">>,
    <<"h", "e", "r">>,
    <<"i", "t", "s">>,
    <<"i", "n", "t", "o">>,
    <<"o", "n", "t", "o">>,
    <<"a", "b", "o", "u", "t">>,
    <<"a", "f", "t", "e", "r">>,
    <<"b", "e", "f", "o", "r", "e">>,
    <<"o", "v", "e", "r">>,
    <<"u", "n", "d", "e", "r">>,
    <<"b", "e", "t", "w", "e", "e", "n">>,
    <<"a", "c", "r", "o", "s", "s">>,
    <<"i", "n", "t", "o">>,
    <<"m", "o", "r", "e">>,
    <<"l", "e", "s", "s">>,
    <<"t", "h", "a", "n">>,
    <<"t", "h", "e", "n">>,
    <<"a", "l", "s", "o">>,
    <<"w", "i", "l", "l">>,
    <<"w", "o", "u", "l", "d">>,
    <<"c", "o", "u", "l", "d">>,
    <<"s", "h", "o", "u", "l", "d">>,
    <<"c", "a", "n">>,
    <<"m", "a", "y">>,
    <<"m", "i", "g", "h", "t">>,
    <<"j", "u", "s", "t">>,
    <<"l", "i", "k", "e">>,
    <<"t", "i", "m", "e">>,
    <<"y", "e", "a", "r">>,
    <<"m", "o", "n", "t", "h">>,
    <<"c", "i", "t", "y">>,
    <<"n", "e", "w">>,
    <<"y", "o", "r", "k">>,
    <<"s", "a", "n">>,
    <<"f", "r", "a", "n", "c", "i", "s", "c", "o">>,
    <<"m", "a", "k", "e">>,
    <<"n", "e", "e", "d">>,
    <<"w", "a", "n", "t">>,
    <<"m", "u", "c", "h">>,
    <<"m", "a", "n", "y">>,
    <<"s", "o", "m", "e">>,
    <<"m", "o", "s", "t">>,
    <<"o", "t", "h", "e", "r">>,
    <<"s", "a", "m", "e">>,
    <<"v", "e", "r", "y">>,
    <<"r", "e", "a", "l", "l", "y">> }

\* the characters of the class [a-z0-9']
TokenChars ==
  { LowerChars[i] : i \in 1..Len(LowerChars) }
  \cup { DigitChars[i] : i \in 1..Len(DigitChars) } \cup { "'" }

RECURSIVE findall_tokens(_, _)
\* re.findall(r"[a-z0-9']+", s): the maximal runs of token characters, in
\* order; cur is the run being read
findall_tokens(s, cur) ==
  IF s = << >> THEN (IF cur = << >> THEN << >> ELSE << cur >>)
  ELSE IF Head(s) \in TokenChars
  THEN findall_tokens(Tail(s), Append(cur, Head(s)))
  ELSE (IF cur = << >> THEN << >> ELSE << cur >>) \o findall_tokens(Tail(s), << >>)

RECURSIVE strip_left(_, _)
strip_left(s, c) ==
  IF s # << >> /\ Head(s) = c THEN strip_left(Tail(s), c) ELSE s

RECURSIVE strip_right(_, _)
strip_right(s, c) ==
  IF s # << >> /\ s[Len(s)] = c
  THEN strip_right(SubSeq(s, 1, Len(s) - 1), c) ELSE s

\* token.strip(c) for one character c
strip_char(s, c) == strip_right(strip_left(s, c), c)

\* tokenize_summary(text)
tokenize_summary(txt) ==
  LET tokens == findall_tokens(str_lower(txt), << >>)
  IN { strip_char(tokens[i], "'") :
         i \in { j \in 1..Len(tokens) :
                   /\ Len(strip_char(tokens[j], "'")) >= 3
                   /\ tokens[j] \notin STOPWORDS } }

\* min(a, b)
min(a, b) == IF a <= b THEN a ELSE b

\* overlap_score with the size of the target's token set as denominator
overlap_score_by_target(overlap, target_tokens, candidate_tokens) ==
  << Cardinality(overlap), Cardinality(target_tokens) >>

\* score = len(overlap) / min(len(target_tokens), len(candidate_tokens)),
\* kept as the fraction << numerator, denominator >>
overlap_score(overlap, target_tokens, candidate_tokens) ==
  << Cardinality(overlap),
     min(Cardinality(target_tokens), Cardinality(candidate_tokens)) >>

\* score_greater that also holds for equal scores
score_greater_or_equal(a, b) == a[1] * b[2] >= b[1] * a[2]

\* whether the score a is greater than the score b (denominators positive)
score_greater(a, b) == a[1] * b[2] > b[1] * a[2]

\* the entry (score, overlap, item) appended for a candidate
similarity(target_item, item) ==
  LET target_tokens == tokenize_summary(target_item.summary)
      candidate_tokens == tokenize_summary(item.summary)
      overlap == target_tokens \cap candidate_tokens
  IN [score |-> overlap_score(overlap, target_tokens, candidate_tokens),
      overlap |-> overlap, item |-> item]

\* candidate_skipped with only the self-comparison guard
candidate_skipped_self_only(target_item, item) == item.id = target_item.id

\* the three `continue` guards of the loop over the candidates
candidate_skipped(target_item, item) ==
  \/ item.id = target_item.id
  \/ tokenize_summary(item.summary) = {}
  \/ tokenize_summary(target_item.summary) \cap tokenize_summary(item.summary) = {}

RECURSIVE similarities(_, _, _)
\* the loop `for item in items` of find_relations_keyword from the k-th item
\* on: the entries appended; a score << n, 0 >> is the division that raises
\* ZeroDivisionError
similarities(its, target_item, k) ==
  IF k > Len(its) THEN << >>
  ELSE IF candidate_skipped(target_item, its[k])
  THEN similarities(its, target_item, k + 1)
  ELSE << similarity(target_item, its[k]) >>
         \o similarities(its, target_item, k + 1)

RECURSIVE insert_by_score(_, _)
\* x put into the list sorted by descending score, after the entries of
\* equal score
insert_by_score(sorted, x) ==
  IF sorted = << >> THEN << x >>
  ELSE IF score_greater(x.score, Head(sorted).score) THEN << x >> \o sorted
  ELSE << Head(sorted) >> \o insert_by_score(Tail(sorted), x)

RECURSIVE sort_by_score(_, _)
\* similarities.sort(key=lambda x: x[0], reverse=True): a stable sort
sort_by_score(sims, sorted) ==
  IF sims = << >> THEN sorted
  ELSE sort_by_score(Tail(sims), insert_by_score(sorted, Head(sims)))

\* the code points of the token characters are ordered ' < 0..9 < a..z
CharOrder == << "'" >> \o DigitChars \o LowerChars

char_rank(c) == CHOOSE i \in 1..Len(CharOrder) : CharOrder[i] = c

RECURSIVE str_less(_, _)
\* a < b on strings of token characters
str_less(a, b) ==
  IF b = << >> THEN FALSE
  ELSE IF a = << >> THEN TRUE
  ELSE IF Head(a) = Head(b) THEN str_less(Tail(a), Tail(b))
  ELSE char_rank(Head(a)) < char_rank(Head(b))

RECURSIVE sorted_strings(_)
\* sorted(S) for a set of strings
sorted_strings(S) ==
  IF S = {} THEN << >>
  ELSE LET least == CHOOSE x \in S : \A y \in S \ {x} : str_less(x, y)
       IN << least >> \o sorted_strings(S \ {least})

Prefix_shares == <<"S", "h", "a", "r", "e", "s", " ", "k", "e", "y", "w", "o", "r", "d", "s", ":", " ">>

\* the relation built from one of the top matches
keyword_relation(match) ==
  [id |-> match.item.id,
   reason |-> Prefix_shares \o str_join(<< ",", " " >>, sorted_strings(match.overlap))]

\* find_relations_keyword(items, target_item): [raised, value]
find_relations_keyword(its, target_item) ==
  IF tokenize_summary(target_item.summary) = {}
  THEN [raised |-> FALSE, value |-> << >>]
  ELSE LET sims == similarities(its, target_item, 1)
           ranked == sort_by_score(sims, << >>)
           top_matches == SubSeq(ranked, 1, min(5, Len(ranked)))
       IN IF \E i \in 1..Len(sims) : sims[i].score[2] = 0
          THEN [raised |-> TRUE, value |-> << >>]
          ELSE [raised |-> FALSE,
                value |-> [i \in 1..Len(top_matches) |->
                             keyword_relation(top_matches[i])]]

\* find_relations_anthropic / find_relations_openai on the provider's
\* response: raises when the call raises or the text is not JSON, else the
\* `related` list of the parsed object
find_relations_llm(resp) ==
  IF resp.kind = "parsed" THEN [raised |-> FALSE, value |-> resp.value]
  ELSE [raised |-> TRUE, value |-> << >>]

RECURSIVE append_relations(_, _, _)
\* the loop `for rel in relations` inside the try block: the connections
\* after it, and whether rel['id'] or rel['reason'] raised KeyError
append_relations(conns, item, relations) ==
  IF relations = << >> THEN [raised |-> FALSE, value |-> conns]
  ELSE LET rel == Head(relations)
       IN IF ~({"id", "reason"} \subseteq DOMAIN rel)
          THEN [raised |-> TRUE, value |-> conns]
          ELSE append_relations(
                 Append(conns, [source_id |-> item.id, target_id |-> rel.id,
                                reason |-> rel.reason]),
                 item, Tail(relations))

(***************************************************************************)
(* add_topics.py: one round of the loop of process_topics.                 *)
(***************************************************************************)
\* node_map[nid]: the last node of the list with that id, as an index, 0 when
\* the id is no key of node_map
node_map(nodes, nid) ==
  IF \E k \in 1..Len(nodes) : nodes[k].id = nid
  THEN CHOOSE k \in 1..Len(nodes) :
         /\ nodes[k].id = nid
         /\ \A j \in (k + 1)..Len(nodes) : nodes[j].id # nid
  ELSE 0

\* bypasses_labelers with the test `len(comm) < 1`
bypasses_labelers_empty_only(comm) == Cardinality(comm) < 1

\* `if len(comm) < 2`: the community gets the fixed label
bypasses_labelers(comm) == Cardinality(comm) < 2

\* the label and topic id process_topics gives the community comm at index
\* idx0 (from 0), the labeler calls it makes, and the exception it lets out
label_round(nodes, comm, idx0, has_client, resp, order) ==
  IF bypasses_labelers(comm)
  THEN [raised |-> "none", label |-> Label_Miscellaneous, topic_id |-> "misc",
        calls |-> << >>]
  ELSE
    LET nids == iterate(comm, order)
        comm_nodes == [i \in 1..Len(nids) |-> nodes[node_map(nodes, nids[i])]]
        llm == label_community(comm_nodes, resp)
        c_llm == << [cluster |-> idx0, kind |-> "llm_label"] >>
        c_fb == << [cluster |-> idx0, kind |-> "fallback_label"] >>
        tid == "topic_" \o ToString(idx0)
    IN IF \E i \in 1..Len(nids) : node_map(nodes, nids[i]) = 0
       THEN [raised |-> "KeyError", label |-> << >>, topic_id |-> tid,
             calls |-> << >>]
       ELSE IF has_client /\ ~llm.raised
       THEN [raised |-> "none", label |-> llm.value, topic_id |-> tid,
             calls |-> c_llm]
       ELSE IF has_client
       THEN [raised |-> "none", label |-> get_fallback_label(comm_nodes),
             topic_id |-> tid, calls |-> c_llm \o c_fb]
       ELSE [raised |-> "none", label |-> get_fallback_label(comm_nodes),
             topic_id |-> tid, calls |-> c_fb]

\* the nodes after `n['topic_id'] = topic_id; n['topic_label'] = label` for
\* the ids of comm
tag_nodes(nodes, comm, topic_id, label) ==
  [i \in 1..Len(nodes) |->
     IF nodes[i].id \in comm /\ \A j \in 1..(i - 1) : nodes[j].id # nodes[i].id
     THEN [id |-> nodes[i].id, summary |-> nodes[i].summary,
           topic_id |-> topic_id, topic_label |-> label]
     ELSE nodes[i]]

\* process_item: the try block of find_all_relations for one item, given
\* what find_fn(items, item) did
process_item(conns, item, found) ==
  IF found.raised THEN [raised |-> TRUE, value |-> conns]
  ELSE append_relations(conns, item, found.value)

\* the provider names find_all_relations accepts
LLMProviders == { "anthropic", "openai" }
Providers == LLMProviders \cup { "keyword" }

\* the provider main hands to find_all_relations: argv is the value of the
\* --provider flag and env that of CITYVOICE_RELATION_PROVIDER ("none" when
\* absent), avail the LLM providers whose library and API key are present
select_provider(argv, env, avail) ==
  LET flagged == IF argv # "none" THEN argv ELSE "anthropic"
      overridden == IF env # "none" THEN env ELSE flagged
      usable == IF overridden \in LLMProviders /\ overridden \notin avail
                THEN "keyword" ELSE overridden
  IN IF usable \notin Providers THEN "keyword" ELSE usable

\* load_from_connections_json(filepath): the items of the stored nodes
load_from_connections_json(doc) ==
  [i \in 1..Len(doc.nodes) |->
     [id |-> doc.nodes[i].id, summary |-> doc.nodes[i].summary]]

\* update_connections_json that writes the edges of an empty run as well
update_connections_json_always(doc, connections) ==
  [doc EXCEPT !.edges =
     [i \in 1..Len(connections) |->
        [source_id |-> connections[i].source_id,
         target_id |-> connections[i].target_id,
         reason |-> connections[i].reason]]]

\* update_connections_json(filepath, connections): the document stored
\* afterwards, doc being the one stored before
update_connections_json(doc, connections) ==
  IF connections = << >> THEN doc
  ELSE [doc EXCEPT !.edges =
          [i \in 1..Len(connections) |->
             [source_id |-> connections[i].source_id,
              target_id |-> connections[i].target_id,
              reason |-> connections[i].reason]]]

\* save_full_graph(items, connections, filepath): the document written
save_full_graph(its, connections) ==
  [nodes |-> [i \in 1..Len(its) |-> [id |-> its[i].id, summary |-> its[i].summary]],
   edges |-> connections]

RECURSIVE keyword_connections(_, _, _)
\* find_all_relations(items, "keyword") from the k-th item on, conns being
\* the connections appended so far
keyword_connections(its, k, conns) ==
  IF k > Len(its) THEN conns
  ELSE keyword_connections(its, k + 1,
         process_item(conns, its[k], find_relations_keyword(its, its[k])).value)

\* main in project mode with the keyword provider: the document stored
\* afterwards
relation_run(doc) ==
  LET its == load_from_connections_json(doc)
  IN IF Len(its) < 2 THEN doc
     ELSE update_connections_json(doc, keyword_connections(its, 1, << >>))

(***************************************************************************)
(* server.py: the handlers that edit the nodes of a project. node_ids is   *)
(* << >> for None, << S >> for the list of the ids S.                      *)
(***************************************************************************)
None == << >>

\* node_ids is None or id in node_ids
selects(node_ids, id) == node_ids = None \/ id \in node_ids[1]

RECURSIVE max_of(_)
\* max(ids) of a non-empty set of integers
max_of(S) ==
  LET x == CHOOSE y \in S : TRUE
  IN IF S = { x } THEN x
     ELSE LET m == max_of(S \ { x }) IN IF x > m THEN x ELSE m

\* max_id for a project whose ids count its nodes
max_id_by_count(doc) == Len(doc.nodes)

\* max([n.get('id', 0) for n in data['nodes']], default=0)
max_id(doc) ==
  IF doc.nodes = << >> THEN 0
  ELSE max_of({ doc.nodes[i].id : i \in 1..Len(doc.nodes) })

\* add_nodes_to_project(project_name, rows): the nodes appended
new_nodes(doc, rows) ==
  [k \in 1..Len(rows) |->
     [id |-> max_id(doc) + k, summary |-> rows[k], status |-> "provisional"]]

\* add_nodes_to_project: the document stored afterwards
add_nodes_to_project(doc, rows) ==
  [doc EXCEPT !.nodes = doc.nodes \o new_nodes(doc, rows)]

\* whether commit_nodes commits the node
commits(node, node_ids) ==
  /\ node.status = "provisional"
  /\ selects(node_ids, node.id)

\* commit_nodes(project_name, node_ids): the document stored afterwards
commit_nodes(doc, node_ids) ==
  [doc EXCEPT !.nodes =
     [i \in 1..Len(doc.nodes) |->
        IF commits(doc.nodes[i], node_ids)
        THEN [doc.nodes[i] EXCEPT !.status = "committed"]
        ELSE doc.nodes[i]]]

\* ids_to_remove that takes every listed id, provisional or not
ids_to_remove_any_status(doc, node_ids) ==
  { doc.nodes[i].id :
      i \in { j \in 1..Len(doc.nodes) :
                 selects(node_ids, doc.nodes[j].id) } }

\* ids_to_remove of discard_nodes
ids_to_remove(doc, node_ids) ==
  { doc.nodes[i].id :
      i \in { j \in 1..Len(doc.nodes) :
                 /\ doc.nodes[j].status = "provisional"
                 /\ selects(node_ids, doc.nodes[j].id) } }

\* the edges discard_nodes keeps, whatever touches only one removed node
kept_edges_either_end(doc, removed) ==
  SelectSeq(doc.edges,
            LAMBDA e : e.source_id \notin removed \/ e.target_id \notin removed)

\* the edges discard_nodes keeps
kept_edges(doc, removed) ==
  SelectSeq(doc.edges,
            LAMBDA e : e.source_id \notin removed /\ e.target_id \notin removed)

\* discard_nodes that leaves the edge list as it is
discard_nodes_keeping_edges(doc, node_ids) ==
  LET removed == ids_to_remove(doc, node_ids)
  IN [doc EXCEPT
        !.nodes = SelectSeq(doc.nodes, LAMBDA n : n.id \notin removed)]

\* discard_nodes(project_name, node_ids): the document stored afterwards
discard_nodes(doc, node_ids) ==
  LET removed == ids_to_remove(doc, node_ids)
  IN [doc EXCEPT
        !.nodes = SelectSeq(doc.nodes, LAMBDA n : n.id \notin removed),
        !.edges = kept_edges(doc, removed)]

\* `if result.returncode != 0` after edge generation, for a run that goes
\* on whatever find_related_items.py returned
edge_generation_failed_never(returncode) == FALSE

\* run_clustering: `if result.returncode != 0` after find_related_items.py
edge_generation_failed(returncode) == returncode # 0

\* run_clustering: `if result.returncode != 0` after enhance_clusters.py
clustering_failed(returncode) == returncode # 0

(***************************************************************************)
(* State.                                                                  *)
(***************************************************************************)
VARIABLES
  pc,                 \* position of the running program
  exception,          \* "none", or what raised the exception that ended the run
  calls,              \* the labeler / LLM calls made so far
  setOrder,           \* the order in which sets of ids are iterated
  client,             \* whether an Anthropic client is available
  data,               \* the graph document: [nodes, edges]
  text, topic,        \* classifier: the summary given, the topic returned
  clusters,           \* the list detect_clusters returned
  ci,                 \* enhance_clusters: index of the next cluster
  enhanced_clusters,  \* enhance_clusters: the records appended so far
  report,             \* enhanced_clusters.json: << >> or << document >>
  communities,        \* process_topics: what detect_communities returned
  idx,                \* process_topics: index of the next community
  topics,             \* process_topics: the topic records appended so far
  topics_file,        \* connections_with_topics.json: << >> or << document >>
  items,              \* find_all_relations: the items
  provider,           \* find_all_relations: the provider name
  fi,                 \* find_all_relations: index of the next item
  all_connections,    \* find_all_relations: the connections appended so far
  failed,             \* find_all_relations: ids of the items whose try block raised
  argv_provider,      \* main: the value of --provider, "none" without the flag
  env_provider,       \* main: CITYVOICE_RELATION_PROVIDER, "none" when unset
  available,          \* main: the LLM providers with their library and API key
  data_path,          \* main: whether CITYVOICE_DATA_PATH is set (project mode)
  cluster,            \* rule-based labeler: << >> or << the cluster given >>
  analysis,           \* rule-based labeler: << >> or << the dict returned >>
  tokens,             \* tokenizer: the set tokenize_summary returned
  project,            \* server: the connections.json of the project
  op,                 \* server: the last handler run, its node_ids and result
  born,               \* server: the id each item ever created was given
  launched,           \* run_clustering: the scripts started so far, in order
  returncodes,        \* run_clustering: the exit codes of the scripts that ended
  outcome,            \* run_clustering: what it raised, or what it returned
  report_writes       \* run_clustering: how often the cluster report was written

runVars == << exception, calls, setOrder, client, data >>
classifyVars == << text, topic >>
enhanceVars == << clusters, ci, enhanced_clusters, report >>
topicVars == << communities, idx, topics, topics_file >>
mainVars == << argv_provider, env_provider, available, data_path >>
relationVars == << items, provider, fi, all_connections, failed, mainVars >>

labelVars == << cluster, analysis >>
\* the variables of the programs that run apart from the pipeline scripts
tokenVars == << tokens >>
serverVars == << project, op, born >>
clusteringVars == << launched, returncodes, outcome, report_writes >>
otherVars == << labelVars, tokenVars, serverVars, clusteringVars >>

vars == << pc, runVars, classifyVars, enhanceVars, topicVars, relationVars,
           otherVars >>

(***************************************************************************)
(* Bounds of the model.                                                    *)
(***************************************************************************)
MaxFragments == 3
MaxNodes == 4
MaxEdges == 2
MaxReportNodes == 3
MaxTopicNodes == 3
MaxItems == 7
MaxShortItems == 4
MaxLLMItems == 2
MaxClusterNodes == 3
MaxTokenFragments == 3
MaxStartNodes == 2
MaxBorn == 3
MaxRelated == 6

(***************************************************************************)
(* Inputs.                                                                 *)
(***************************************************************************)
Text_bus_lane == <<"B", "u", "s", " ", "l", "a", "n", "e">>
Text_safe_street == <<"s", "a", "f", "e", " ", "S", "t", "r", "e", "e", "t">>
Text_hello == <<"h", "e", "l", "l", "o">>
Text_reason == <<"r">>
Text_wider == <<"w", "i", "d", "e", "r", " ", "s", "i", "d", "e", "w", "a", "l", "k", "s", " ", "o", "n", " ", "5", "t", "h", " ", "a", "v", "e">>
Text_bigger == <<"m", "a", "k", "e", " ", "s", "i", "d", "e", "w", "a", "l", "k", "s", " ", "b", "i", "g", "g", "e", "r", " ", "d", "o", "w", "n", "t", "o", "w", "n">>
Text_police == <<"m", "o", "r", "e", " ", "p", "o", "l", "i", "c", "e", " ", "o", "n", " ", "b", "u", "s", "e", "s">>
Text_bus_lanes_twice == <<"B", "u", "s", " ", "l", "a", "n", "e", "s", ".", " ", "B", "u", "s", ",", " ", "t", "h", "e", " ", "l", "a", "n", "e", "s">>
Text_bus_lane_park == <<"B", "u", "s", " ", "l", "a", "n", "e", " ", "p", "a", "r", "k">>
Text_bus_lane_stop == <<"b", "u", "s", " ", "l", "a", "n", "e", " ", "s", "t", "o", "p">>
Text_more_bus == <<"m", "o", "r", "e", " ", "b", "u", "s">>
Text_it_is == <<"I", "t", " ", "i", "s">>
Text_staten_island == <<"S", "t", "a", "t", "e", "n", " ", "I", "s", "l", "a", "n", "d", " ", "f", "e", "r", "r", "y">>
Text_dense == <<"M", "o", "r", "e", " ", "d", "e", "n", "s", "i", "t", "y">>
Text_quoted_label == <<" ", " ", "\"", "T", "r", "a", "n", "s", "i", "t", " ", "H", "u", "b", "\"", " ">>

\* the texts of the classifier runs: up to MaxFragments fragments in a row
Fragments ==
  { <<"b", "u", "s">>, <<"S", "A", "F", "E">>, <<"P", "a", "r", "k">>,
    <<"a", "d">>, <<"u">>, <<" ">>, <<"k", "i", "d", "s">>, <<"x">> }

ClassifyTexts ==
  { Concat(fs) : fs \in UNION { [1..k -> Fragments] : k \in 0..MaxFragments } }

\* node lists with ids 1..n, in list order
NodeLists(pool, maxn) ==
  { [i \in 1..Len(ts) |-> [id |-> i, summary |-> ts[i]]] :
      ts \in UNION { [1..k -> pool] : k \in 0..maxn } }

\* the edge from s to t
Edge(s, t) == [source_id |-> s, target_id |-> t, reason |-> Text_reason]

\* the order in which the edge lists list their pairs
PairLess(p, q) == p[1] < q[1] \/ (p[1] = q[1] /\ p[2] < q[2])

\* edge lists of at most m distinct edges between the given ids, an edge
\* running from the smaller id to the larger (or from an id to itself)
EdgeLists(ids, m) ==
  { [i \in 1..Len(ps) |-> Edge(ps[i][1], ps[i][2])] :
      ps \in UNION { { f \in [1..k -> { p \in ids \X ids : p[1] <= p[2] }] :
                         \A i \in 1..(k - 1) : PairLess(f[i], f[i + 1]) } :
                     k \in 0..m } }

\* the edge lists of the runs that do not vary the graph: no edge, an edge
\* between the first two nodes, an edge to the id of no node
FewEdgeLists(ns) ==
  { << >>, << Edge(1, 2) >>, << Edge(1, Len(ns) + 1) >> }

\* the graph documents over a node list; id Len(nodes) + 1 is the id of no node
GraphInputs(ns, m) ==
  { [nodes |-> ns, edges |-> es] : es \in EdgeLists(1..(Len(ns) + 1), m) }

DetectPool == { Text_bus_lane, Text_safe_street }
ReportPool == { Text_bus_lane, Text_hello }
TopicPool == { Text_bus_lanes_twice, Text_it_is }
ItemPool == { Text_bus_lane_park, Text_bus_lane_stop }
ShortItemPool == ItemPool \cup { << >>, Text_more_bus, Text_it_is }

\* the scenario of the specification: three items, one edge
ScenarioData ==
  [nodes |-> << [id |-> 1, summary |-> Text_wider],
                [id |-> 2, summary |-> Text_bigger],
                [id |-> 3, summary |-> Text_police] >>,
   edges |-> << Edge(1, 2) >>]

MaxId == MaxNodes + MaxItems + 1
Ascending == [i \in 1..MaxId |-> i]
Descending == [i \in 1..MaxId |-> MaxId + 1 - i]
SetOrders == { Ascending, Descending }

NoData == [nodes |-> << >>, edges |-> << >>]

\* what a provider may answer: it raises, its text cannot be parsed, or its
\* text parses to one of the given values
Responses(parsed) ==
  { [kind |-> "raise", value |-> << >>], [kind |-> "unparsable", value |-> << >>] }
  \cup { [kind |-> "parsed", value |-> v] : v \in parsed }

NoResponse == [kind |-> "raise", value |-> << >>]

LLMAnalyses ==
  { [name |-> "Bus Riders Unite", summary |-> "Riders ask for lanes",
     action |-> "Paint the lanes", consensus |-> "Low"],
    [summary |-> "Riders ask for lanes"] }

LLMDemandLists ==
  { << >>,
    << [description |-> "bus lanes", tweet_ids |-> << 1, 2 >>,
        voices |-> << "@a", "@b" >>, count |-> 2] >>,
    << [description |-> "bus lanes", tweet_ids |-> << 1 >>,
        voices |-> << "@a" >>, count |-> 3] >>,
    << [description |-> "bus lanes", tweet_ids |-> << 1 >>] >> }

LLMActionLists ==
  { << >>,
    << [title |-> "Bus lane pilot", proposal |-> "Paint 10 miles by 2026",
        supporting_demands |-> << "bus lanes" >>, voices_represented |-> 2] >> }

LabelResponses == Responses({ << a >> : a \in LLMAnalyses })
DemandResponses == Responses(LLMDemandLists)
ActionResponses == Responses(LLMActionLists)

\* the answers to the prompt of label_community
LabelTextResponses ==
  { [kind |-> "raise", value |-> << >>],
    [kind |-> "text", value |-> Text_quoted_label],
    [kind |-> "text", value |-> Label_Miscellaneous] }

\* the `related` lists a provider may return, each relation naming the item
\* with id t: up to MaxRelated relations, of which the first or the
\* MaxRelated-th may lack its reason
RelatedLists(t) ==
  { [k \in 1..n |-> IF k = bad THEN [id |-> t]
                    ELSE [id |-> t, reason |-> Text_reason]] :
      n \in 0..MaxRelated, bad \in { 0, 1, MaxRelated } }

RelationResponses(t) == Responses(RelatedLists(t))

RECURSIVE CommunityListsUpTo(_, _)
\* the lists of disjoint non-empty sets that cover S, none larger than
\* maxsize nor than the one before it
CommunityListsUpTo(S, maxsize) ==
  IF S = {} THEN { << >> }
  ELSE UNION { { << B >> \o q : q \in CommunityListsUpTo(S \ B, Cardinality(B)) } :
               B \in { X \in SUBSET S : X # {} /\ Cardinality(X) <= maxsize } }

\* the lists of communities detect_communities may return for a graph on
\* the ids S: a partition of S, largest community first
CommunityLists(S) == CommunityListsUpTo(S, Cardinality(S))

\* the ids of the graph detect_communities builds: the nodes and the
\* endpoints of the edges
GraphIds(d) ==
  { d.nodes[i].id : i \in 1..Len(d.nodes) }
  \cup { d.edges[i].source_id : i \in 1..Len(d.edges) }
  \cup { d.edges[i].target_id : i \in 1..Len(d.edges) }

IdleClassify == text = << >> /\ topic = "none"
IdleEnhance ==
  clusters = << >> /\ ci = 0 /\ enhanced_clusters = << >> /\ report = << >>
IdleTopics ==
  communities = << >> /\ idx = 0 /\ topics = << >> /\ topics_file = << >>
NoMain ==
  /\ argv_provider = "none" /\ env_provider = "none"
  /\ available = {} /\ data_path = FALSE
IdleRelations ==
  /\ items = << >> /\ provider = "none" /\ fi = 0
  /\ all_connections = << >> /\ failed = {}
  /\ NoMain
NoRun == exception = "none" /\ calls = << >>
IdleLabel == cluster = << >> /\ analysis = << >>
IdleTokenize == tokens = {}
NoOp == [name |-> "none", node_ids |-> None, result |-> << >>]
IdleServer == project = NoData /\ op = NoOp /\ born = << >>
NoOutcome == [raised |-> "none", value |-> "none"]
IdleClustering ==
  /\ launched = << >> /\ returncodes = << >>
  /\ outcome = NoOutcome /\ report_writes = 0
IdleOthers == IdleLabel /\ IdleTokenize /\ IdleServer /\ IdleClustering

(***************************************************************************)
(* The classifier on its own.                                              *)
(***************************************************************************)
InitClassify ==
  /\ pc = "classify"
  /\ text \in ClassifyTexts
  /\ topic = "none"
  /\ NoRun /\ setOrder = Ascending /\ client = FALSE /\ data = NoData
  /\ IdleEnhance /\ IdleTopics /\ IdleRelations /\ IdleOthers

ClassifyNode ==
  /\ pc = "classify"
  /\ topic' = classify_node([id |-> 1, summary |-> text])
  /\ pc' = "classified"
  /\ UNCHANGED << text, runVars, enhanceVars, topicVars, relationVars,
                  otherVars >>

NextClassify == ClassifyNode

SpecClassify == InitClassify /\ [][NextClassify]_vars

(***************************************************************************)
(* detect_clusters on its own.                                             *)
(***************************************************************************)
InitDetect ==
  /\ pc = "detect"
  /\ \E ns \in NodeLists(DetectPool, MaxNodes) : data \in GraphInputs(ns, MaxEdges)
  /\ setOrder \in SetOrders
  /\ NoRun /\ client = FALSE
  /\ IdleClassify /\ IdleEnhance /\ IdleTopics /\ IdleRelations /\ IdleOthers

DetectClusters ==
  /\ pc = "detect"
  /\ clusters' = detect_clusters(data, setOrder)
  /\ pc' = "detected"
  /\ UNCHANGED << runVars, classifyVars, ci, enhanced_clusters, report,
                  topicVars, relationVars,
                  otherVars >>

NextDetect == DetectClusters

SpecDetect == InitDetect /\ [][NextDetect]_vars

(***************************************************************************)
(* enhance_clusters: a whole clustering run.                               *)
(***************************************************************************)
InitEnhance ==
  /\ pc = "start"
  /\ \/ data = ScenarioData
     \/ \E ns \in NodeLists(ReportPool, MaxReportNodes) :
          \E es \in FewEdgeLists(ns) : data = [nodes |-> ns, edges |-> es]
  /\ setOrder = Ascending
  /\ client \in BOOLEAN
  /\ NoRun
  /\ IdleClassify /\ IdleEnhance /\ IdleTopics /\ IdleRelations /\ IdleOthers

\* load_data, detect_clusters and the choice of the client
LoadAndDetect ==
  /\ pc = "start"
  /\ clusters' = detect_clusters(data, setOrder)
  /\ ci' = 1
  /\ pc' = "analyze"
  /\ UNCHANGED << runVars, classifyVars, enhanced_clusters, report,
                  topicVars, relationVars,
                  otherVars >>

\* one round of `for i, cluster in enumerate(clusters)` with a client
AnalyzeClusterAI ==
  /\ pc = "analyze" /\ ci <= Len(clusters) /\ client
  /\ \E lab \in LabelResponses, dem \in DemandResponses, act \in ActionResponses :
       LET r == analyze_cluster(clusters[ci], TRUE, lab, dem, act)
       IN /\ calls' = calls \o r.calls
          /\ exception' = r.raised
          /\ IF r.raised # "none"
             THEN /\ pc' = "raised"
                  /\ UNCHANGED << ci, enhanced_clusters >>
             ELSE /\ enhanced_clusters' = enhanced_clusters \o r.record
                  /\ ci' = ci + 1
                  /\ pc' = pc
  /\ UNCHANGED << setOrder, client, data, classifyVars, clusters, report,
                  topicVars, relationVars,
                  otherVars >>

\* one round of the loop without a client
AnalyzeClusterSimple ==
  /\ pc = "analyze" /\ ci <= Len(clusters) /\ ~client
  /\ LET r == analyze_cluster(clusters[ci], FALSE, NoResponse, NoResponse,
                              NoResponse)
     IN /\ calls' = calls \o r.calls
        /\ enhanced_clusters' = enhanced_clusters \o r.record
  /\ ci' = ci + 1
  /\ UNCHANGED << pc, exception, setOrder, client, data, classifyVars,
                  clusters, report, topicVars, relationVars,
                  otherVars >>

\* the dump of enhanced_clusters.json after the loop
SaveReport ==
  /\ pc = "analyze" /\ ci > Len(clusters)
  /\ report' = << [total_ideas |-> Len(data.nodes),
                   total_clusters |-> Len(enhanced_clusters),
                   clusters |-> enhanced_clusters] >>
  /\ pc' = "done"
  /\ UNCHANGED << runVars, classifyVars, clusters, ci, enhanced_clusters,
                  topicVars, relationVars,
                  otherVars >>

NextEnhance ==
  \/ LoadAndDetect
  \/ AnalyzeClusterAI
  \/ AnalyzeClusterSimple
  \/ SaveReport

SpecEnhance == InitEnhance /\ [][NextEnhance]_vars

(***************************************************************************)
(* add_topics.py: process_topics.                                          *)
(***************************************************************************)
InitTopics ==
  /\ pc = "communities"
  /\ \E ns \in NodeLists(TopicPool, MaxTopicNodes) :
       \E es \in FewEdgeLists(ns) : data = [nodes |-> ns, edges |-> es]
  /\ setOrder \in SetOrders
  /\ client \in BOOLEAN
  /\ NoRun
  /\ IdleClassify /\ IdleEnhance /\ IdleTopics /\ IdleRelations /\ IdleOthers

\* detect_communities(data): the partition the library returns
DetectCommunities ==
  /\ pc = "communities"
  /\ communities' \in CommunityLists(GraphIds(data))
  /\ idx' = 1
  /\ topics' = << >>
  /\ pc' = "label"
  /\ UNCHANGED << runVars, classifyVars, enhanceVars, topics_file, relationVars,
                  otherVars >>

\* one round of `for idx, comm in enumerate(communities)`
LabelCommunity ==
  /\ pc = "label" /\ idx <= Len(communities)
  /\ \E resp \in LabelTextResponses :
       LET comm == communities[idx]
           r == label_round(data.nodes, comm, idx - 1, client, resp, setOrder)
       IN /\ calls' = calls \o r.calls
          /\ exception' = r.raised
          /\ IF r.raised # "none"
             THEN /\ pc' = "raised"
                  /\ UNCHANGED << data, idx, topics >>
             ELSE /\ topics' = Append(topics,
                                  [id |-> r.topic_id, label |-> r.label,
                                   count |-> Cardinality(comm), color |-> ""])
                  /\ data' = [data EXCEPT !.nodes =
                                tag_nodes(data.nodes, comm, r.topic_id, r.label)]
                  /\ idx' = idx + 1
                  /\ pc' = pc
  /\ UNCHANGED << setOrder, client, classifyVars, enhanceVars, communities,
                  topics_file, relationVars,
                  otherVars >>

\* the dump of connections_with_topics.json after the loop
SaveTopics ==
  /\ pc = "label" /\ idx > Len(communities)
  /\ topics_file' = << [nodes |-> data.nodes, edges |-> data.edges,
                        topics |-> topics] >>
  /\ pc' = "done"
  /\ UNCHANGED << runVars, classifyVars, enhanceVars, communities, idx, topics,
                  relationVars,
                  otherVars >>

NextTopics ==
  \/ DetectCommunities
  \/ LabelCommunity
  \/ SaveTopics

SpecTopics == InitTopics /\ [][NextTopics]_vars

(***************************************************************************)
(* find_related_items.py: find_all_relations.                              *)
(***************************************************************************)
InitRelations ==
  /\ pc = "find_all"
  /\ provider \in Providers \cup { "embeddings" }
  /\ \/ /\ provider \in LLMProviders \cup { "embeddings" }
        /\ items \in NodeLists({ Text_bus_lane_park }, MaxLLMItems)
     \/ /\ provider = "keyword"
        /\ items \in NodeLists(ItemPool, MaxItems)
                       \cup NodeLists(ShortItemPool, MaxShortItems)
  /\ fi = 0 /\ all_connections = << >> /\ failed = {}
  /\ NoMain
  /\ NoRun /\ setOrder = Ascending /\ client = FALSE /\ data = NoData
  /\ IdleClassify /\ IdleEnhance /\ IdleTopics /\ IdleOthers

\* the choice of find_fn at the head of find_all_relations
SelectFinder ==
  /\ pc = "find_all"
  /\ IF provider \in Providers
     THEN pc' = "items" /\ fi' = 1 /\ UNCHANGED exception
     ELSE pc' = "raised" /\ exception' = "ValueError" /\ UNCHANGED fi
  /\ UNCHANGED << calls, setOrder, client, data, classifyVars, enhanceVars,
                  topicVars, items, provider, all_connections, failed,
                  mainVars,
                  otherVars >>

\* one round of `for i, item in enumerate(items)` with an LLM finder
ProcessItemLLM ==
  /\ pc = "items" /\ fi <= Len(items) /\ provider \in LLMProviders
  /\ \E resp \in RelationResponses(items[1].id) :
       LET r == process_item(all_connections, items[fi], find_relations_llm(resp))
       IN /\ all_connections' = r.value
          /\ failed' = IF r.raised THEN failed \cup { items[fi].id } ELSE failed
  /\ fi' = fi + 1
  /\ UNCHANGED << pc, runVars, classifyVars, enhanceVars, topicVars, items,
                  provider, mainVars,
                  otherVars >>

\* one round of the loop with the keyword finder
ProcessItemKeyword ==
  /\ pc = "items" /\ fi <= Len(items) /\ provider = "keyword"
  /\ LET r == process_item(all_connections, items[fi],
                           find_relations_keyword(items, items[fi]))
     IN /\ all_connections' = r.value
        /\ failed' = IF r.raised THEN failed \cup { items[fi].id } ELSE failed
  /\ fi' = fi + 1
  /\ UNCHANGED << pc, runVars, classifyVars, enhanceVars, topicVars, items,
                  provider, mainVars,
                  otherVars >>

\* `return all_connections`
ReturnConnections ==
  /\ pc = "items" /\ fi > Len(items)
  /\ pc' = "returned"
  /\ UNCHANGED << runVars, classifyVars, enhanceVars, topicVars, relationVars,
                  otherVars >>

NextRelations ==
  \/ SelectFinder
  \/ ProcessItemLLM
  \/ ProcessItemKeyword
  \/ ReturnConnections

SpecRelations == InitRelations /\ [][NextRelations]_vars

(***************************************************************************)
(* find_related_items.py: main, from the command line to the connections.  *)
(***************************************************************************)
\* the names a provider setting is given: the three providers and a name
\* that is none of them
ProviderNames == Providers \cup { "embeddings" }

\* the edge lists a project's connections.json may hold before the run:
\* none, or an edge of an earlier run
StoredEdgeLists ==
  { << >>, << [source_id |-> 1, target_id |-> 2, reason |-> Text_hello] >> }

\* in project mode connections.json holds the nodes, edges of an earlier run
\* and the project's metadata; in legacy mode the items are the rows of the
\* CSV file
InitMain ==
  /\ pc = "main"
  /\ argv_provider \in ProviderNames \cup { "none" }
  /\ env_provider \in ProviderNames \cup { "none" }
  /\ available \in SUBSET LLMProviders
  /\ data_path \in BOOLEAN
  /\ \E ns \in NodeLists({ Text_bus_lane_park }, MaxLLMItems) :
       IF data_path
       THEN /\ items = << >>
            /\ \E es \in StoredEdgeLists :
                 data = [nodes |-> ns, edges |-> es, metadata |-> "project"]
       ELSE items = ns /\ data = NoData
  /\ provider = "none" /\ fi = 0 /\ all_connections = << >> /\ failed = {}
  /\ NoRun /\ setOrder = Ascending /\ client = FALSE
  /\ IdleClassify /\ IdleEnhance /\ IdleTopics /\ IdleOthers

\* main up to its call of find_all_relations: the choice of the provider,
\* the loading of the items, and in project mode the exit on fewer than 2
MainStart ==
  /\ pc = "main"
  /\ provider' = select_provider(argv_provider, env_provider, available)
  /\ items' = IF data_path THEN load_from_connections_json(data) ELSE items
  /\ pc' = IF data_path /\ Len(items') < 2 THEN "exit" ELSE "find_all"
  /\ UNCHANGED << runVars, classifyVars, enhanceVars, topicVars, fi,
                  all_connections, failed, mainVars,
                  otherVars >>

\* main after find_all_relations has returned: update_connections_json in
\* project mode, save_full_graph in legacy mode
SaveConnections ==
  /\ pc = "returned"
  /\ data' = IF data_path THEN update_connections_json(data, all_connections)
             ELSE save_full_graph(items, all_connections)
  /\ pc' = "saved"
  /\ UNCHANGED << exception, calls, setOrder, client, classifyVars,
                  enhanceVars, topicVars, relationVars, otherVars >>

NextMain ==
  \/ MainStart
  \/ SelectFinder
  \/ ProcessItemLLM
  \/ ProcessItemKeyword
  \/ ReturnConnections
  \/ SaveConnections

SpecMain == InitMain /\ [][NextMain]_vars

(***************************************************************************)
(* generate_cluster_analysis_simple on its own.                            *)
(***************************************************************************)
\* summaries with each phrase the labeler looks for, with none, and none
LabelPool ==
  { Text_staten_island, Text_bus_lane, Text_wider, Text_dense, Text_hello, << >> }

\* the topics a cluster may carry: those of the classifier and one that
\* topic_names does not know
ClusterTopics ==
  { topic_keywords[k].topic : k \in 1..Len(topic_keywords) } \cup { "Other", "Parking" }

InitLabel ==
  /\ pc = "label"
  /\ \E t \in ClusterTopics, ns \in NodeLists(LabelPool, MaxClusterNodes) :
       cluster = << [id |-> 0, topic |-> t, nodes |-> ns] >>
  /\ analysis = << >>
  /\ NoRun /\ setOrder = Ascending /\ client = FALSE /\ data = NoData
  /\ IdleClassify /\ IdleEnhance /\ IdleTopics /\ IdleRelations
  /\ IdleTokenize /\ IdleServer /\ IdleClustering

GenerateAnalysisSimple ==
  /\ pc = "label"
  /\ analysis' = << generate_cluster_analysis_simple(cluster[1]) >>
  /\ pc' = "labeled"
  /\ UNCHANGED << runVars, classifyVars, enhanceVars, topicVars, relationVars,
                  cluster, tokenVars, serverVars, clusteringVars >>

NextLabel == GenerateAnalysisSimple

SpecLabel == InitLabel /\ [][NextLabel]_vars

(***************************************************************************)
(* tokenize_summary on its own.                                            *)
(***************************************************************************)
\* pieces of a summary: a stopword bare, in apostrophes and in capitals, a
\* word that ends with an apostrophe, a short word, and separators
TokenFragments ==
  { <<"t", "h", "e">>, <<"'", "t", "h", "e", "'">>, <<"T", "h", "e">>, <<"b", "u", "s", "e", "s", "'">>, <<"i", "t">>, <<" ">>, <<"'">> }

\* the summaries of up to MaxTokenFragments pieces
TokenizeTexts ==
  { Concat(fs) : fs \in UNION { [1..n -> TokenFragments] : n \in 0..MaxTokenFragments } }

InitTokenize ==
  /\ pc = "tokenize"
  /\ text \in TokenizeTexts
  /\ topic = "none" /\ tokens = {}
  /\ NoRun /\ setOrder = Ascending /\ client = FALSE /\ data = NoData
  /\ IdleEnhance /\ IdleTopics /\ IdleRelations /\ IdleLabel /\ IdleServer
  /\ IdleClustering

TokenizeSummary ==
  /\ pc = "tokenize"
  /\ tokens' = tokenize_summary(text)
  /\ pc' = "tokenized"
  /\ UNCHANGED << runVars, classifyVars, enhanceVars, topicVars, relationVars,
                  labelVars, serverVars, clusteringVars >>

NextTokenize == TokenizeSummary

SpecTokenize == InitTokenize /\ [][NextTokenize]_vars

(***************************************************************************)
(* server.py: a project under the node handlers and relation runs.         *)
(***************************************************************************)
Statuses == { "provisional", "committed", "none" }

\* the node lists a project starts with: ids pairwise distinct, each node
\* provisional, committed or without a status
StartNodeLists ==
  UNION { { [i \in 1..n |->
                [id |-> i, summary |-> Text_bus_lane_park, status |-> f[i]]] :
              f \in [1..n -> Statuses] } :
          n \in 0..MaxStartNodes }

\* the edges a project starts with: none, or one between its first two nodes
StartEdgeLists(ns) ==
  IF Len(ns) < 2 THEN { << >> } ELSE { << >>, << Edge(1, 2) >> }

\* the rows of one add: one row, or two
RowLists ==
  { << Text_bus_lane_stop >>, << Text_bus_lane_park, Text_bus_lane_stop >> }

\* the node_ids of a request: None, the empty list, or one id of the project
NodeIdArgs(doc) ==
  { None, << {} >> } \cup { << { doc.nodes[i].id } >> : i \in 1..Len(doc.nodes) }

InitServer ==
  /\ pc = "serving"
  /\ \E ns \in StartNodeLists :
       /\ \E es \in StartEdgeLists(ns) :
            project = [nodes |-> ns, edges |-> es, metadata |-> "project"]
       /\ born = [i \in 1..Len(ns) |-> ns[i].id]
  /\ op = NoOp
  /\ NoRun /\ setOrder = Ascending /\ client = FALSE /\ data = NoData
  /\ IdleClassify /\ IdleEnhance /\ IdleTopics /\ IdleRelations
  /\ IdleLabel /\ IdleTokenize /\ IdleClustering

AddNodes ==
  /\ pc = "serving"
  /\ \E rows \in RowLists :
       /\ Len(born) + Len(rows) <= MaxBorn
       /\ project' = add_nodes_to_project(project, rows)
       /\ LET added == new_nodes(project, rows)
              ids == [k \in 1..Len(added) |-> added[k].id]
          IN /\ op' = [name |-> "add", node_ids |-> None,
                       result |-> [added |-> Len(added),
                                   total |-> Len(project'.nodes),
                                   new_node_ids |-> ids]]
             /\ born' = born \o ids
  /\ UNCHANGED << pc, runVars, classifyVars, enhanceVars, topicVars,
                  relationVars, labelVars, tokenVars, clusteringVars >>

CommitNodes ==
  /\ pc = "serving"
  /\ \E node_ids \in NodeIdArgs(project) :
       /\ project' = commit_nodes(project, node_ids)
       /\ op' = [name |-> "commit", node_ids |-> node_ids,
                 result |-> [committed |->
                   Cardinality({ i \in 1..Len(project.nodes) :
                                   commits(project.nodes[i], node_ids) })]]
  /\ UNCHANGED << pc, runVars, classifyVars, enhanceVars, topicVars,
                  relationVars, labelVars, tokenVars, born,
                  clusteringVars >>

DiscardNodes ==
  /\ pc = "serving"
  /\ \E node_ids \in NodeIdArgs(project) :
       /\ project' = discard_nodes(project, node_ids)
       /\ op' = [name |-> "discard", node_ids |-> node_ids,
                 result |-> [discarded |->
                   Len(project.nodes) - Len(project'.nodes)]]
  /\ UNCHANGED << pc, runVars, classifyVars, enhanceVars, topicVars,
                  relationVars, labelVars, tokenVars, born,
                  clusteringVars >>

\* a relation-discovery run on the project with the keyword provider
RelationRun ==
  /\ pc = "serving"
  /\ project' = relation_run(project)
  /\ op' = [name |-> "relations", node_ids |-> None, result |-> << >>]
  /\ UNCHANGED << pc, runVars, classifyVars, enhanceVars, topicVars,
                  relationVars, labelVars, tokenVars, born,
                  clusteringVars >>

NextServer ==
  \/ AddNodes
  \/ CommitNodes
  \/ DiscardNodes
  \/ RelationRun

SpecServer == InitServer /\ [][NextServer]_vars

(***************************************************************************)
(* run_clustering of server.py: the two scripts it runs, one after the     *)
(* other, each ending with an exit code of its own.                        *)
(***************************************************************************)
\* the exit codes of a script: success, or a failure
ExitCodes == {0, 1, 2}

\* a project directory without connections.json
NoProject == [nodes |-> << >>, edges |-> << >>, metadata |-> "missing"]

InitClustering ==
  /\ pc = "run_clustering"
  /\ \/ project = NoProject
     \/ \E ns \in StartNodeLists : \E es \in StartEdgeLists(ns) :
          project = [nodes |-> ns, edges |-> es, metadata |-> "project"]
  /\ op = NoOp /\ born = << >>
  /\ IdleClustering
  /\ NoRun /\ setOrder = Ascending /\ client = FALSE /\ data = NoData
  /\ IdleClassify /\ IdleEnhance /\ IdleTopics /\ IdleRelations
  /\ IdleLabel /\ IdleTokenize

\* up to the first subprocess.run: ValueError without connections.json
ClusteringStart ==
  /\ pc = "run_clustering"
  /\ IF project = NoProject
     THEN /\ outcome' = [raised |-> "ValueError", value |-> "not found"]
          /\ pc' = "clustering_returned"
          /\ UNCHANGED launched
     ELSE /\ launched' = Append(launched, "find_related_items.py")
          /\ pc' = "edge_generation"
          /\ UNCHANGED outcome
  /\ UNCHANGED << runVars, classifyVars, enhanceVars, topicVars, relationVars,
                  labelVars, tokenVars, serverVars, returncodes,
                  report_writes >>

\* find_related_items.py ends; run_clustering goes on to the second
\* subprocess.run or raises
EdgeGenerationEnds ==
  /\ pc = "edge_generation"
  /\ \E returncode \in ExitCodes :
       /\ returncodes' = Append(returncodes, returncode)
       /\ project' = IF returncode = 0 THEN relation_run(project) ELSE project
       /\ IF edge_generation_failed(returncode)
          THEN /\ outcome' = [raised |-> "RuntimeError",
                              value |-> "Edge generation failed"]
               /\ pc' = "clustering_returned"
               /\ UNCHANGED launched
          ELSE /\ launched' = Append(launched, "enhance_clusters.py")
               /\ pc' = "cluster_enhancement"
               /\ UNCHANGED outcome
  /\ UNCHANGED << runVars, classifyVars, enhanceVars, topicVars, relationVars,
                  labelVars, tokenVars, op, born, report_writes >>

\* enhance_clusters.py ends: it wrote the report when it succeeded, and may
\* or may not have when it failed; run_clustering returns or raises
ClusterEnhancementEnds ==
  /\ pc = "cluster_enhancement"
  /\ \E returncode \in ExitCodes, wrote \in BOOLEAN :
       /\ returncode = 0 => wrote
       /\ returncodes' = Append(returncodes, returncode)
       /\ report_writes' = IF wrote THEN report_writes + 1 ELSE report_writes
       /\ outcome' = IF clustering_failed(returncode)
                     THEN [raised |-> "RuntimeError",
                           value |-> "Clustering failed"]
                     ELSE [raised |-> "none", value |-> "completed"]
  /\ pc' = "clustering_returned"
  /\ UNCHANGED << runVars, classifyVars, enhanceVars, topicVars, relationVars,
                  labelVars, tokenVars, serverVars, launched >>

NextClustering ==
  \/ ClusteringStart
  \/ EdgeGenerationEnds
  \/ ClusterEnhancementEnds

SpecClustering == InitClustering /\ [][NextClustering]_vars

(***************************************************************************)
(* Properties.                                                             *)
(***************************************************************************)
\* the places (cluster, position) at which the node with this id occurs
Positions(cs, id) ==
  UNION { { << c, k >> : k \in { j \in 1..Len(cs[c].nodes) : cs[c].nodes[j].id = id } } :
          c \in 1..Len(cs) }

\* the number of nodes of the graph document that classify into topic t
TopicSize(t) ==
  Cardinality({ i \in 1..Len(data.nodes) : classify_node(data.nodes[i]) = t })

\* C1: detect_clusters puts every input node (ids pairwise distinct) at
\* exactly one place of exactly one cluster: none is missing, none is in two
\* clusters or twice in one.
C1_EveryNodeInExactlyOneCluster ==
  pc = "detected" =>
    \A i \in 1..Len(data.nodes) :
      Cardinality(Positions(clusters, data.nodes[i].id)) = 1

\* a traversal joined two nodes and left a node of the same topic to a
\* cluster of its own
C1_Witness ==
  /\ pc = "detected"
  /\ \E c1, c2 \in 1..Len(clusters) :
       /\ c1 # c2
       /\ clusters[c1].topic = clusters[c2].topic
       /\ Len(clusters[c1].nodes) >= 2

\* C2: every node of a cluster carries the cluster's topic, so two items
\* classified into different topics are never in one cluster, whatever the
\* edges.
C2_ClusterNodesShareTopic ==
  pc = "detected" =>
    \A c \in 1..Len(clusters) :
      \A k \in 1..Len(clusters[c].nodes) :
        /\ clusters[c].nodes[k].topic = clusters[c].topic
        /\ classify_node(clusters[c].nodes[k]) = clusters[c].topic

\* an edge joins two nodes of different topics, one of them in a topic group
\* that is traversed
C2_Witness ==
  /\ pc = "detected"
  /\ \E e \in 1..Len(data.edges) :
       \E a, b \in 1..Len(data.nodes) :
         /\ data.nodes[a].id = data.edges[e].source_id
         /\ data.nodes[b].id = data.edges[e].target_id
         /\ classify_node(data.nodes[a]) # classify_node(data.nodes[b])
         /\ TopicSize(classify_node(data.nodes[a])) > 2

\* the order of the topic table
TopicOrder ==
  << "Housing", "Transit", "Sidewalks", "Safety", "Green Space", "Schools" >>

\* kw occurs in s at some position, letters compared without regard to case
OccursIgnoringCase(kw, s) ==
  \E i \in 0..(Len(s) - Len(kw)) :
    \A j \in 1..Len(kw) : lower_ch(s[i + j]) = lower_ch(kw[j])

\* some keyword of the topic named t occurs in s
TopicMatches(t, s) ==
  \E k \in 1..Len(topic_keywords) :
    /\ topic_keywords[k].topic = t
    /\ \E j \in 1..Len(topic_keywords[k].keywords) :
         OccursIgnoringCase(topic_keywords[k].keywords[j], s)

\* C3: classify_node returns the first topic, in the order Housing, Transit,
\* Sidewalks, Safety, Green Space, Schools, one of whose keywords occurs in
\* the summary as a case-insensitive substring, and Other when none does.
C3_FirstMatchingTopic ==
  pc = "classified" =>
    \/ /\ topic = "Other"
       /\ \A k \in 1..Len(TopicOrder) : ~TopicMatches(TopicOrder[k], text)
    \/ \E k \in 1..Len(TopicOrder) :
         /\ topic = TopicOrder[k]
         /\ TopicMatches(TopicOrder[k], text)
         /\ \A j \in 1..(k - 1) : ~TopicMatches(TopicOrder[j], text)

\* a summary with capital letters that matches two topics got the first of
\* them
C3_Witness ==
  /\ pc = "classified"
  /\ topic = "Transit"
  /\ TopicMatches("Safety", text)
  /\ \E i \in 1..Len(text) : text[i] # lower_ch(text[i])

\* what the cluster report says of each cluster: topic, node ids, name
ReportView ==
  { [topic |-> report[1].clusters[c].topic,
     ids |-> [k \in 1..Len(report[1].clusters[c].nodes) |->
                report[1].clusters[c].nodes[k].id],
     name |-> report[1].clusters[c].name] :
      c \in 1..Len(report[1].clusters) }

ScenarioDone == data = ScenarioData /\ ~client /\ pc = "done"

\* C4 as stated: in the scenario the items classify as Sidewalks, Sidewalks,
\* Safety, the clusters are {Sidewalks, [1,2]} and {Safety, [3]}, and the
\* rule-based labeler names them Sidewalk Width Reform and Public Safety.
C4_ScenarioAsStated ==
  ScenarioDone =>
    /\ classify_node(data.nodes[1]) = "Sidewalks"
    /\ classify_node(data.nodes[2]) = "Sidewalks"
    /\ classify_node(data.nodes[3]) = "Safety"
    /\ ReportView =
         { [topic |-> "Sidewalks", ids |-> << 1, 2 >>, name |-> "Sidewalk Width Reform"],
           [topic |-> "Safety", ids |-> << 3 >>, name |-> "Public Safety"] }

\* C4 as amended: in the scenario the items classify as Sidewalks, Sidewalks,
\* Transit ("buses" contains the Transit keyword "bus", and Transit precedes
\* Safety), the clusters are {Sidewalks, [1,2]} and {Transit, [3]}, and the
\* rule-based labeler names them Sidewalk Width Reform and Transit
\* Improvements.
C4_ScenarioAsComputed ==
  ScenarioDone =>
    /\ classify_node(data.nodes[1]) = "Sidewalks"
    /\ classify_node(data.nodes[2]) = "Sidewalks"
    /\ classify_node(data.nodes[3]) = "Transit"
    /\ ReportView =
         { [topic |-> "Sidewalks", ids |-> << 1, 2 >>, name |-> "Sidewalk Width Reform"],
           [topic |-> "Transit", ids |-> << 3 >>, name |-> "Transit Improvements"] }

\* the scenario ran to the end with the rule-based labeler
C4_Witness == ScenarioDone /\ Len(report[1].clusters) = 2

\* the labeler calls made for the community at index idx0
CallsFor(idx0) == { i \in 1..Len(calls) : calls[i].cluster = idx0 }

\* C5 as stated: every community of size 2 or less is labeled Miscellaneous
\* with the id misc, and no labeler is called for it.
C5_SizeAtMostTwoBypasses ==
  \A k \in 1..Len(topics) :
    topics[k].count <= 2 =>
      /\ topics[k].label = Label_Miscellaneous
      /\ topics[k].id = "misc"
      /\ CallsFor(k - 1) = {}

\* C5 as amended: every community of size less than 2 is labeled
\* Miscellaneous with the id misc, and no labeler is called for it.
C5_SizeBelowTwoBypasses ==
  \A k \in 1..Len(topics) :
    topics[k].count < 2 =>
      /\ topics[k].label = Label_Miscellaneous
      /\ topics[k].id = "misc"
      /\ CallsFor(k - 1) = {}

\* a run labeled a community of two with a labeler and then a community of
\* one
C5_Witness ==
  /\ pc = "done"
  /\ \E k \in 1..Len(topics) : topics[k].count = 1
  /\ \E k \in 1..Len(topics) : topics[k].count = 2 /\ CallsFor(k - 1) # {}

\* C6: with a client, a labeling call that raises does not end the run: the
\* exception of the labeling call never leaves enhance_clusters.
C6_LabelingFailureContained ==
  ~(pc = "raised" /\ exception = "label")

\* C7: an item whose processing raised is the source of no connection.
C7_FailedItemHasNoEdges ==
  \A e \in 1..Len(all_connections) : all_connections[e].source_id \notin failed

\* the connections whose source is the item with this id
EdgesFrom(id) ==
  { e \in 1..Len(all_connections) : all_connections[e].source_id = id }

\* C8: with every finder, find_all_relations emits at most 5 connections per
\* source item.
C8_AtMostFiveEdgesPerItem ==
  \A i \in 1..Len(items) : Cardinality(EdgesFrom(items[i].id)) <= 5

\* the token set of the item with this id
TokensOfId(id) ==
  UNION { tokenize_summary(items[i].summary) :
            i \in { j \in 1..Len(items) : items[j].id = id } }

\* C9: the keyword finder never raises (no division by zero); an item whose
\* token set is empty is the source of no connection and the target of none.
C9_EmptyTokenSetsContributeNothing ==
  provider = "keyword" =>
    /\ failed = {}
    /\ \A e \in 1..Len(all_connections) :
         /\ TokensOfId(all_connections[e].source_id) # {}
         /\ TokensOfId(all_connections[e].target_id) # {}

\* a keyword run over an item with an empty summary, an item whose summary
\* has no token, and items that are related
C9_Witness ==
  /\ provider = "keyword" /\ pc = "returned"
  /\ \E i \in 1..Len(items) : items[i].summary = << >>
  /\ \E i \in 1..Len(items) :
       items[i].summary # << >> /\ tokenize_summary(items[i].summary) = {}
  /\ all_connections # << >>

\* C10: for two items with distinct ids and non-empty token sets, the overlap
\* and the score are the same whichever of the two is the target.
C10_OverlapSymmetric ==
  (provider = "keyword" /\ pc = "returned") =>
    \A a, b \in 1..Len(items) :
      ( /\ items[a].id # items[b].id
        /\ tokenize_summary(items[a].summary) # {}
        /\ tokenize_summary(items[b].summary) # {} ) =>
        /\ similarity(items[a], items[b]).overlap
             = similarity(items[b], items[a]).overlap
        /\ similarity(items[a], items[b]).score
             = similarity(items[b], items[a]).score

\* two items with token sets of different sizes were each found related to
\* the other
C10_Witness ==
  /\ provider = "keyword" /\ pc = "returned"
  /\ \E a, b \in 1..Len(items) :
       /\ Cardinality(tokenize_summary(items[a].summary))
            < Cardinality(tokenize_summary(items[b].summary))
       /\ \E e \in EdgesFrom(items[a].id) : all_connections[e].target_id = items[b].id
       /\ \E e \in EdgesFrom(items[b].id) : all_connections[e].target_id = items[a].id

\* the records appended so far
Records == { enhanced_clusters[k] : k \in 1..Len(enhanced_clusters) }

\* C11: with an LLM client, a failure of the demand-extraction call or of
\* the action-synthesis call of a cluster never leaves the loop over the
\* clusters: no run ends on the exception of one of these two calls.
C11_ExtractionFailureContained ==
  ~(pc = "raised" /\ exception \in { "demands", "actions" })

\* the LLM calls of the given kind made for the cluster with the given id
CallsOfKind(id, kind) ==
  { k \in 1..Len(calls) : calls[k].cluster = id /\ calls[k].kind = kind }

\* C12: a cluster whose demand extraction yielded no demands gets no
\* action-synthesis call and an empty synthesized_actions; no record has
\* proposals while its demand list is empty.
C12_NoProposalsWithoutDemands ==
  \A r \in Records :
    r.demands = << >> =>
      /\ r.synthesized_actions = << >>
      /\ CallsOfKind(r.id, "actions") = {}

\* a finished run with a client in which one cluster had its demands
\* extracted to nothing and another got proposals for its demands
C12_Witness ==
  /\ pc = "done" /\ client
  /\ \E r \in Records :
       r.demands = << >> /\ CallsOfKind(r.id, "demands") # {}
  /\ \E r \in Records :
       r.synthesized_actions # << >> /\ CallsOfKind(r.id, "actions") # {}

\* C13: every demand stored in the cluster report has a count equal to the
\* number of its contributing item ids.
C13_DemandCountIsNumberOfIds ==
  \A r \in Records :
    \A k \in 1..Len(r.demands) :
      {"count", "tweet_ids"} \subseteq DOMAIN r.demands[k]
        => r.demands[k].count = Len(r.demands[k].tweet_ids)

\* the ids of the nodes of the graph document
NodeIds == { data.nodes[i].id : i \in 1..Len(data.nodes) }

\* the edges of the graph document that have an endpoint that is no node
DanglingEdges ==
  { e \in 1..Len(data.edges) :
      ~({ data.edges[e].source_id, data.edges[e].target_id } \subseteq NodeIds) }

\* C14: with edges whose source_id or target_id is the id of no node,
\* detect_clusters still returns (no exception ends it), and every entry of
\* every cluster is a node of the node list.
C14_DanglingEdgesTolerated ==
  (pc = "detected" /\ DanglingEdges # {}) =>
    /\ exception = "none"
    /\ \A c \in 1..Len(clusters) :
         \A k \in 1..Len(clusters[c].nodes) :
           \E i \in 1..Len(data.nodes) :
             /\ clusters[c].nodes[k].id = data.nodes[i].id
             /\ clusters[c].nodes[k].summary = data.nodes[i].summary

\* detect_clusters has returned for a graph where an edge leads from a node
\* of a traversed topic group to the id of no node
C14_Witness ==
  /\ pc = "detected"
  /\ \E e \in DanglingEdges :
       \E a \in 1..Len(data.nodes) :
         /\ data.nodes[a].id \in { data.edges[e].source_id, data.edges[e].target_id }
         /\ TopicSize(classify_node(data.nodes[a])) > 2

\* the ids of the classified nodes cn that have topic t
GroupIds(cn, t) == { cn[i].id : i \in { j \in 1..Len(cn) : cn[j].topic = t } }

\* whether an edge of the document joins a and b, in either direction
Linked(a, b) ==
  \E e \in 1..Len(data.edges) :
    \/ data.edges[e].source_id = a /\ data.edges[e].target_id = b
    \/ data.edges[e].source_id = b /\ data.edges[e].target_id = a

RECURSIVE Component(_, _)
\* the ids of G reachable from the ids R along edges with both ends in G
Component(R, G) ==
  LET more == { b \in G \ R : \E a \in R : Linked(a, b) }
  IN IF more = {} THEN R ELSE Component(R \cup more, G)

\* the reference: the id sets of the clusters of the topic group G
ReferenceClusters(G) ==
  IF Cardinality(G) <= 2 THEN { G }
  ELSE { Component({ a }, G) : a \in G }

\* the clusters detect_clusters emitted with topic t
ClustersOf(t) == { c \in 1..Len(clusters) : clusters[c].topic = t }

\* the ids of the nodes of the c-th cluster
ClusterIds(c) == { clusters[c].nodes[k].id : k \in 1..Len(clusters[c].nodes) }

\* C17: for each topic group the clusters detect_clusters emits are those of
\* the reference: one cluster with the whole group when the group has 1 or 2
\* items, else exactly the connected components of the undirected graph
\* the edges with both ends in the group induce on it; no cluster has the
\* topic of no group.
C17_ClustersEqualReference ==
  pc = "detected" =>
    LET cn == classified(data.nodes)
        present == { cn[i].topic : i \in 1..Len(cn) }
    IN /\ \A c \in 1..Len(clusters) : clusters[c].topic \in present
       /\ \A t \in present :
            LET ref == ReferenceClusters(GroupIds(cn, t))
            IN /\ { ClusterIds(c) : c \in ClustersOf(t) } = ref
               /\ Cardinality(ClustersOf(t)) = Cardinality(ref)

\* two nodes of a traversed topic group, linked only through a node of
\* another topic, came out in different clusters
C17_Witness ==
  /\ pc = "detected"
  /\ \E a, b, x \in 1..Len(data.nodes) :
       /\ classify_node(data.nodes[a]) = classify_node(data.nodes[b])
       /\ classify_node(data.nodes[x]) # classify_node(data.nodes[a])
       /\ TopicSize(classify_node(data.nodes[a])) > 2
       /\ Linked(data.nodes[a].id, data.nodes[x].id)
       /\ Linked(data.nodes[x].id, data.nodes[b].id)
       /\ \A c \in 1..Len(clusters) :
            ~({ data.nodes[a].id, data.nodes[b].id } \subseteq ClusterIds(c))

\* C18: what detect_clusters returns (the sequence of clusters and the
\* sequence of nodes in each) is the same for every order in which the
\* neighbor sets are enumerated.
C18_OutputIndependentOfSetOrder ==
  pc = "detected" =>
    \A o \in SetOrders : detect_clusters(data, o) = clusters

\* C19: no id is a member of its own neighbor set in the adjacency map
\* detect_clusters builds, also when an edge has source_id = target_id.
C19_NoSelfLoopInAdjacency ==
  pc = "detected" =>
    \A id \in GraphIds(data) : id \notin adjacency(data.edges, id)

\* the candidates of the a-th item: the items with another id that share a
\* keyword with it, as indexes; tok[i] is the token set of the i-th item
Candidates(tok, a) ==
  { b \in 1..Len(items) : items[b].id # items[a].id /\ tok[a] \cap tok[b] # {} }

\* whether candidate b ranks before candidate c for the a-th item: its
\* overlap score |intersection| / min(|target|, |candidate|) is greater, or
\* the scores are equal and b comes earlier in the input
RanksBefore(tok, a, b, c) ==
  LET nb == Cardinality(tok[a] \cap tok[b])
      nc == Cardinality(tok[a] \cap tok[c])
      db == IF Cardinality(tok[a]) <= Cardinality(tok[b])
            THEN Cardinality(tok[a]) ELSE Cardinality(tok[b])
      dc == IF Cardinality(tok[a]) <= Cardinality(tok[c])
            THEN Cardinality(tok[a]) ELSE Cardinality(tok[c])
  IN \/ nb * dc > nc * db
     \/ nb * dc = nc * db /\ b < c

\* whether ks lists the strings of S once each in ascending order
IsSortedListOf(ks, S) ==
  /\ Len(ks) = Cardinality(S)
  /\ { ks[i] : i \in 1..Len(ks) } = S
  /\ \A i \in 1..(Len(ks) - 1) : str_less(ks[i], ks[i + 1])

\* the connections emitted for the a-th item, in order
RelationsOf(a) ==
  SelectSeq(all_connections, LAMBDA e : e.source_id = items[a].id)

\* the index of the item with this id
IndexOfId(id) == CHOOSE i \in 1..Len(items) : items[i].id = id

\* C20: find_relations_keyword returns, for every target, the candidates
\* with a non-empty keyword overlap ranked by descending overlap score,
\* ties in input order, cut to the first 5; never the target's own id; each
\* reason lists the shared keywords in sorted order.
C20_KeywordRelationsRanked ==
  (provider = "keyword" /\ pc = "returned") =>
    LET tok == [i \in 1..Len(items) |-> tokenize_summary(items[i].summary)]
    IN \A a \in 1..Len(items) :
         LET rels == RelationsOf(a)
             cands == Candidates(tok, a)
             t == [k \in 1..Len(rels) |-> IndexOfId(rels[k].target_id)]
             chosen == { t[k] : k \in 1..Len(rels) }
         IN /\ Len(rels) = IF Cardinality(cands) <= 5 THEN Cardinality(cands) ELSE 5
            /\ \A k \in 1..Len(rels) :
                 /\ rels[k].target_id # items[a].id
                 /\ t[k] \in cands
                 /\ LET ks == sorted_strings(tok[a] \cap tok[t[k]])
                    IN /\ IsSortedListOf(ks, tok[a] \cap tok[t[k]])
                       /\ rels[k].reason
                            = Prefix_shares \o str_join(<< ",", " " >>, ks)
            /\ \A k \in 1..(Len(rels) - 1) : RanksBefore(tok, a, t[k], t[k + 1])
            /\ \A c \in cands \ chosen :
                 \A k \in 1..Len(rels) : RanksBefore(tok, a, t[k], c)

\* a target with more than 5 candidates got its 5 relations, a candidate of
\* higher score overtook an earlier one, and two candidates of equal score
\* kept their input order
C20_Witness ==
  /\ provider = "keyword" /\ pc = "returned"
  /\ LET tok == [i \in 1..Len(items) |-> tokenize_summary(items[i].summary)]
     IN \E a \in 1..Len(items) :
          LET rels == RelationsOf(a)
          IN /\ Cardinality(Candidates(tok, a)) > 5
             /\ Len(rels) = 5
             /\ \E k \in 1..4 : rels[k].target_id > rels[k + 1].target_id
             /\ \E k \in 1..4 :
                  /\ rels[k].target_id < rels[k + 1].target_id
                  /\ tok[IndexOfId(rels[k].target_id)]
                       = tok[IndexOfId(rels[k + 1].target_id)]

\* the provider name the configuration gives: the environment override, else
\* the flag, else the default
ConfiguredProvider ==
  IF env_provider # "none" THEN env_provider
  ELSE IF argv_provider # "none" THEN argv_provider
  ELSE "anthropic"

\* C15: with a configured provider that is not one of the recognized names
\* the relation-discovery program stops before any item is processed and
\* produces no edges: it never reaches the loop over the items.
C15_InvalidProviderIsFatal ==
  ConfiguredProvider \notin Providers =>
    /\ pc \notin { "items", "returned" }
    /\ all_connections = << >>

\* C16: with the --provider flag and the environment override set to
\* different valid providers (both usable: library and key present), the
\* program uses the provider the flag names.
C16_FlagBeatsEnvironment ==
  ( /\ pc \notin { "main" }
    /\ argv_provider \in Providers /\ env_provider \in Providers
    /\ argv_provider # env_provider
    /\ \A p \in { argv_provider, env_provider } \cap LLMProviders :
         p \in available ) =>
    provider = argv_provider

\* C21: for every non-empty cluster generate_cluster_analysis_simple returns
\* a non-empty name, summary and action, and a consensus that is High
\* exactly when the cluster has 3 or more nodes and Medium otherwise.
C21_SimpleAnalysisComplete ==
  (pc = "labeled" /\ cluster[1].nodes # << >>) =>
    /\ analysis[1].name # ""
    /\ analysis[1].summary # ""
    /\ analysis[1].action # ""
    /\ analysis[1].consensus \in { "High", "Medium" }
    /\ analysis[1].consensus = "High" <=> Len(cluster[1].nodes) >= 3

\* a cluster of exactly 3 nodes, none with a summary, was given its analysis
C21_Witness ==
  /\ pc = "labeled"
  /\ Len(cluster[1].nodes) = 3
  /\ \A k \in 1..3 : cluster[1].nodes[k].summary = << >>
  /\ analysis[1].consensus = "High"

\* C22: tokenize_summary never returns a token that is in the stopword list
\* or that is shorter than 3 characters, also for text whose words are
\* wrapped in or end with apostrophes.
C22_NoStopwordNoShortToken ==
  pc = "tokenized" =>
    \A t \in tokens : t \notin STOPWORDS /\ Len(t) >= 3

\* C23: update_connections_json leaves the stored document unchanged when
\* the run found no connection; when it found some, the stored edge list
\* becomes exactly the new connections while nodes and metadata are
\* unchanged.
C23_UpdateReplacesEdgesOnly ==
  [][ (pc = "returned" /\ pc' = "saved" /\ data_path) =>
        IF all_connections = << >>
        THEN data' = data
        ELSE /\ data'.edges = all_connections
             /\ data'.nodes = data.nodes
             /\ data'.metadata = data.metadata
             /\ DOMAIN data' = DOMAIN data ]_vars

\* a project run that found no connection has gone through
\* update_connections_json and the edge of the earlier run is still stored
C23_Witness ==
  /\ pc = "saved" /\ data_path
  /\ all_connections = << >>
  /\ data.edges \in StoredEdgeLists \ { << >> }

\* the ids of the nodes of a stored document
IdsOf(doc) == { doc.nodes[i].id : i \in 1..Len(doc.nodes) }

\* the nodes of a stored document that carry this id
NodesWithId(doc, id) ==
  { doc.nodes[i] : i \in { j \in 1..Len(doc.nodes) : doc.nodes[j].id = id } }

\* C24: under add_nodes_to_project, commit_nodes and discard_nodes a node's
\* status only changes from provisional to committed; a node is removed
\* only by discard_nodes, only when provisional at that moment and, when
\* node_ids is given, only when listed; a committed node is never removed.
C24_StatusOnlyAdvances ==
  [][ \A i \in 1..Len(project.nodes) :
        LET n == project.nodes[i]
            after == NodesWithId(project', n.id)
        IN IF after = {}
           THEN /\ op'.name = "discard"
                /\ n.status = "provisional"
                /\ op'.node_ids # << >> => n.id \in op'.node_ids[1]
           ELSE \A m \in after :
                  \/ m.status = n.status
                  \/ /\ n.status = "provisional" /\ m.status = "committed"
                     /\ op'.name = "commit" ]_vars

\* a discard that listed one node removed it and left another provisional
\* node and a committed node in the project
C24_Witness ==
  /\ op.name = "discard" /\ op.node_ids # << >>
  /\ op.result.discarded = 1
  /\ \E i, j \in 1..Len(project.nodes) :
       /\ project.nodes[i].status = "provisional"
       /\ project.nodes[j].status = "committed"

\* C25: after discard_nodes no remaining edge has a discarded node as
\* source or target, the edges that touch no discarded node are kept
\* unchanged and in order, and the nodes not discarded are unchanged.
C25_DiscardFrame ==
  [][ op'.name = "discard" =>
        LET gone == IdsOf(project) \ IdsOf(project')
        IN /\ \A e \in 1..Len(project'.edges) :
                /\ project'.edges[e].source_id \notin gone
                /\ project'.edges[e].target_id \notin gone
           /\ project'.edges
                = SelectSeq(project.edges,
                            LAMBDA e : {e.source_id, e.target_id} \cap gone = {})
           /\ project'.nodes
                = SelectSeq(project.nodes, LAMBDA n : n.id \notin gone) ]_vars

\* a discard that listed a node removed it, and the edge the project
\* started with is still stored
C25_Witness ==
  /\ op.name = "discard" /\ op.node_ids # << >>
  /\ op.result.discarded = 1
  /\ project.edges = << Edge(1, 2) >>

\* C26: from a project with pairwise distinct node ids, the node ids stay
\* pairwise distinct under the three handlers, and every node
\* add_nodes_to_project adds is provisional and has an id greater than
\* every id in the project just before the call.
C26_IdsDistinctAndGrowing ==
  [][ /\ \A i, j \in 1..Len(project'.nodes) :
           i # j => project'.nodes[i].id # project'.nodes[j].id
      /\ op'.name = "add" =>
           \A k \in (Len(project.nodes) + 1)..Len(project'.nodes) :
             /\ project'.nodes[k].status = "provisional"
             /\ \A i \in 1..Len(project.nodes) :
                  project'.nodes[k].id > project.nodes[i].id ]_vars

\* a node was added to a project that had lost its first node: it got id 3
\* although the project holds two nodes
C26_Witness ==
  /\ op.name = "add" /\ op.result.new_node_ids = << 3 >>
  /\ IdsOf(project) = {2, 3}
  /\ project.nodes[2].status = "provisional"

\* C27: an id once given to an item is never given to another item: no id
\* occurs twice among the ids given to the items ever created.
C27_IdsNeverReused ==
  \A i, j \in 1..Len(born) : i # j => born[i] # born[j]

\* C30: from a project with distinct node ids and no dangling or self-loop
\* edge, under the three handlers and keyword relation runs every stored
\* edge has both endpoints among the current node ids and joins two
\* different ids.
C30_StoredEdgesValid ==
  pc = "serving" =>
    \A e \in 1..Len(project.edges) :
      /\ project.edges[e].source_id \in IdsOf(project)
      /\ project.edges[e].target_id \in IdsOf(project)
      /\ project.edges[e].source_id # project.edges[e].target_id

\* a discard removed a node of a project whose edges a keyword relation run
\* had stored, and edges of that run remain
C30_Witness ==
  /\ op.name = "discard" /\ op.result.discarded >= 1
  /\ \E e \in 1..Len(project.edges) : project.edges[e].reason # Text_reason

\* C28: run_clustering runs the two stages in order and stops at the first
\* failure: cluster enhancement is started only after edge generation
\* exited with code 0; if edge generation fails a RuntimeError is raised,
\* cluster enhancement is never started and the cluster report is not
\* rewritten; 'completed' is returned only when both stages exited with 0.
C28_StagesInOrder ==
  /\ \A k \in 1..Len(launched) :
       launched[k] = "enhance_clusters.py" =>
         /\ k = 2 /\ launched[1] = "find_related_items.py"
         /\ Len(returncodes) >= 1 /\ returncodes[1] = 0
  /\ (Len(returncodes) >= 1 /\ returncodes[1] # 0) =>
       /\ outcome.raised = "RuntimeError"
       /\ launched = << "find_related_items.py" >>
       /\ report_writes = 0
       /\ pc = "clustering_returned"
  /\ outcome.value = "completed" => returncodes = << 0, 0 >>

\* edge generation failed on a project of two nodes: run_clustering raised
\* with the first script the only one started
C28_Witness ==
  /\ pc = "clustering_returned"
  /\ returncodes = << 1 >>
  /\ outcome.raised = "RuntimeError"
  /\ Len(project.nodes) >= 2

\* the sum of node_count over the first k records of a report
RECURSIVE NodeCountSum(_, _)
NodeCountSum(records, k) ==
  IF k = 0 THEN 0 ELSE NodeCountSum(records, k - 1) + records[k].node_count

\* C29: in every cluster report enhance_clusters writes, total_clusters is
\* the number of cluster records, each record's node_count is the number of
\* its nodes, the cluster ids are 0..total_clusters-1 in emission order, and
\* the node_counts add up to total_ideas (node ids being distinct).
C29_ReportCountsAgree ==
  report # << >> =>
    LET r == report[1]
    IN /\ r.total_clusters = Len(r.clusters)
       /\ \A k \in 1..Len(r.clusters) :
            /\ r.clusters[k].node_count = Len(r.clusters[k].nodes)
            /\ r.clusters[k].id = k - 1
       /\ NodeCountSum(r.clusters, Len(r.clusters)) = r.total_ideas

\* a report of three ideas in two clusters, one of them with two nodes
C29_Witness ==
  /\ report # << >>
  /\ report[1].total_ideas = 3
  /\ report[1].total_clusters = 2
  /\ \E k \in 1..2 : report[1].clusters[k].node_count = 2

====
